---- MODULE Spec2Model ----
(***************************************************************************)
(* A model of the Utopia war-room aggregation core (utopia_war_room):      *)
(*   app.py     text normalizer, event classifiers, war reconstruction     *)
(*              (build_war_rows), aggregation (build_dashboard_analytics), *)
(*              land-impact policy, operation-kind classifier;             *)
(*   parser.py  news ingestion (parse_and_store_news) into kd_news_events. *)
(*                                                                         *)
(* Python text is modelled by TLA+ strings, read character by character    *)
(* with SubSeq; Python None is the value None for text and NoKey for a     *)
(* day-key tuple.  Regular expressions of the source are modelled by       *)
(* matchers that compute the same match on the texts of the model.         *)
(***************************************************************************)
EXTENDS Integers, Sequences, FiniteSets, TLC

VARIABLES
    call,                \* the pure-function call under check: arguments, result, position
    war_events,          \* build_war_rows: argument war_events
    attack_records,      \* build_war_rows / build_dashboard_analytics: attack_records
    home_kingdom,        \* build_war_rows / build_dashboard_analytics: home_kingdom
    ordered_war_events,  \* build_war_rows: the sorted event list
    ev_i,                \* build_war_rows: index of the next event of the loop
    wars,                \* build_war_rows: list wars (war rows, in creation order)
    open_wars,           \* build_war_rows: list open_wars (indices into wars)
    war_seq,             \* build_war_rows: counter war_seq
    wpc,                 \* build_war_rows: position in the function
    rows,                \* build_dashboard_analytics: argument rows (kd_news_events rows)
    forced_home_kingdom, \* build_dashboard_analytics: argument forced_home_kingdom
    row_i,               \* build_dashboard_analytics: index of the next row of the loop
    category_counts,     \* build_dashboard_analytics: dict category_counts
    provinces,           \* build_dashboard_analytics: dict provinces, in insertion order
    kingdom_mentions,    \* build_dashboard_analytics: dict kingdom_mentions
    hit_totals,          \* successful_hits, failed_hits, acres_exchanged, aid_shipments
    war_rows,            \* build_dashboard_analytics: what build_war_rows returned
    rec_i,               \* build_dashboard_analytics: index of the next attack record
    opponent_pressure,   \* build_dashboard_analytics: dict opponent_pressure, in order
    home_land_by_day,    \* build_dashboard_analytics: dict home_land_by_day
    dashboard,           \* build_dashboard_analytics: the dict returned
    dpc,                 \* build_dashboard_analytics: position in the function
    fetch_log,           \* table fetch_log, rows in id order
    kd_news_events,      \* table kd_news_events, rows in id order
    news_seq,            \* sqlite_sequence: the AUTOINCREMENT counter of kd_news_events
    now,                 \* the clock that utc_now_iso and time.time read
    INGEST_STATE,        \* app.py: dict INGEST_STATE, the freshness state
    ANALYTICS_CACHE,     \* app.py: dict ANALYTICS_CACHE, by key
    STOP_EVENT,          \* app.py: STOP_EVENT, set or not
    INGEST_THREAD,       \* app.py: INGEST_THREAD, a position in threads or 0 for None
    INGEST_THREAD_LOCK,  \* app.py: INGEST_THREAD_LOCK, its holder or "free"
    threads,             \* the ingest-worker threads created, each at its position
    starters,            \* the callers of start_ingest_thread, each at its position
    handler,             \* a request handler that calls cache_get and cache_set
    heap                 \* the Python objects of cached values, by identity

callVars == <<call>>
warInputs == <<war_events, attack_records, home_kingdom>>
warVars == <<war_events, attack_records, home_kingdom, ordered_war_events, ev_i,
             wars, open_wars, war_seq, wpc>>
dashVars == <<rows, forced_home_kingdom, row_i, category_counts, provinces, kingdom_mentions,
              hit_totals, war_rows, rec_i, opponent_pressure, home_land_by_day, dashboard, dpc>>
ingestVars == <<fetch_log, kd_news_events, news_seq, now>>
threadVars == <<STOP_EVENT, INGEST_THREAD, INGEST_THREAD_LOCK, threads, starters>>
cacheVars == <<ANALYTICS_CACHE, handler, heap>>
serviceVars == <<INGEST_STATE, ANALYTICS_CACHE, STOP_EVENT, INGEST_THREAD, INGEST_THREAD_LOCK,
                 threads, starters, handler, heap>>
vars == <<call, war_events, attack_records, home_kingdom, ordered_war_events, ev_i,
          wars, open_wars, war_seq, wpc,
          rows, forced_home_kingdom, row_i, category_counts, provinces, kingdom_mentions,
          hit_totals, war_rows, rec_i, opponent_pressure, home_land_by_day, dashboard, dpc,
          fetch_log, kd_news_events, news_seq, now,
          INGEST_STATE, ANALYTICS_CACHE, STOP_EVENT, INGEST_THREAD, INGEST_THREAD_LOCK,
          threads, starters, handler, heap>>

(***************************************************************************)
(* Python values and str methods.                                          *)
(***************************************************************************)
None == "<None>"
NoKey == <<>>

\* s[i-1:i] and s[i-1:], with i counted from 1 (empty when out of range)
Ch(s, i) == IF i >= 1 /\ i <= Len(s) THEN SubSeq(s, i, i) ELSE ""
From(s, i) == IF i > Len(s) THEN "" ELSE SubSeq(s, IF i < 1 THEN 1 ELSE i, Len(s))
Digits == {"0", "1", "2", "3", "4", "5", "6", "7", "8", "9"}
Whitespace == {" ", "\t", "\n", "\r"}
Truthy(s) == s # None /\ s # ""

\* str.lower() on one character (ASCII letters)
LowerOf ==
    ("A" :> "a") @@ ("B" :> "b") @@ ("C" :> "c") @@ ("D" :> "d") @@ ("E" :> "e") @@ ("F" :> "f") @@ ("G" :> "g") @@
    ("H" :> "h") @@ ("I" :> "i") @@ ("J" :> "j") @@ ("K" :> "k") @@ ("L" :> "l") @@ ("M" :> "m") @@ ("N" :> "n") @@
    ("O" :> "o") @@ ("P" :> "p") @@ ("Q" :> "q") @@ ("R" :> "r") @@ ("S" :> "s") @@ ("T" :> "t") @@ ("U" :> "u") @@
    ("V" :> "v") @@ ("W" :> "w") @@ ("X" :> "x") @@ ("Y" :> "y") @@ ("Z" :> "z")
LowerChar(c) == IF c \in DOMAIN LowerOf THEN LowerOf[c] ELSE c

\* the least and the greatest element of a non-empty set of integers
MinOf(S) == CHOOSE x \in S : \A y \in S : x <= y
MaxOf(S) == CHOOSE x \in S : \A y \in S : x >= y
\* "".join(F(i) for i in range(a, b + 1)), by halves
RECURSIVE Cat(_, _, _)
Cat(F(_), a, b) ==
    IF a > b THEN ""
    ELSE IF a = b THEN F(a)
    ELSE Cat(F, a, (a + b) \div 2) \o Cat(F, (a + b) \div 2 + 1, b)

Lower(s) == Cat(LAMBDA i : LowerChar(Ch(s, i)), 1, Len(s))

\* s.startswith(lit, i - 1), with i counted from 1
StartsAt(s, i, lit) ==
    i >= 1 /\ i + Len(lit) - 1 <= Len(s) /\ SubSeq(s, i, i + Len(lit) - 1) = lit
\* lit in s
Contains(s, lit) == \E i \in 1..(Len(s) + 1 - Len(lit)) : StartsAt(s, i, lit)
EndsWith(s, lit) == Len(s) >= Len(lit) /\ StartsAt(s, Len(s) + 1 - Len(lit), lit)

LStripChars(s, cs) ==
    LET From1(K) == IF K = {} THEN "" ELSE From(s, MinOf(K))
    IN  From1({i \in 1..Len(s) : Ch(s, i) \notin cs})
RStripChars(s, cs) ==
    LET Upto(K) == IF K = {} THEN "" ELSE SubSeq(s, 1, MaxOf(K))
    IN  Upto({i \in 1..Len(s) : Ch(s, i) \notin cs})
\* s.strip(cs); s.strip() is StripChars(s, Whitespace)
StripChars(s, cs) == RStripChars(LStripChars(s, cs), cs)
Strip(s) == StripChars(s, Whitespace)

\* " ".join(s.split()): a run of whitespace between two words becomes one space
\* (kept for its first character), whitespace at the ends goes
JoinSplitAt(s, i) ==
    IF Ch(s, i) \notin Whitespace THEN Ch(s, i)
    ELSE IF /\ i > 1
            /\ Ch(s, i - 1) \notin Whitespace
            /\ \E j \in (i + 1)..Len(s) : Ch(s, j) \notin Whitespace
    THEN " "
    ELSE ""
JoinSplit(s) == Cat(LAMBDA i : JoinSplitAt(s, i), 1, Len(s))

\* the end (exclusive) of the longest run of characters of cs starting at i
RunEnd(s, i, cs) ==
    LET FirstOf(K) == IF K # {} THEN MinOf(K) ELSE IF i > Len(s) THEN i ELSE Len(s) + 1
    IN  FirstOf({j \in i..Len(s) : Ch(s, j) \notin cs})

DigitValue(c) == CHOOSE n \in 0..9 : Ch("0123456789", n + 1) = c
\* int(s) for a text of decimal digits
RECURSIVE ToInt(_)
ToInt(s) ==
    IF s = "" THEN 0
    ELSE 10 * ToInt(SubSeq(s, 1, Len(s) - 1)) + DigitValue(Ch(s, Len(s)))

(***************************************************************************)
(* Regular expressions with named groups, as sequences of items.  A match  *)
(* in progress is [i, from, to]: the next index of the text and where each *)
(* group starts and ends.  Every item maps it to the matches that follow,  *)
(* in the order in which backtracking tries them, so that the first match  *)
(* left after the last item is the one re.match returns.                   *)
(***************************************************************************)
Lit(s) == [k |-> "lit", s |-> s, ic |-> TRUE]       \* text, under re.IGNORECASE
Exact(s) == [k |-> "lit", s |-> s, ic |-> FALSE]    \* text, case-sensitive
OneOf(ss) == [k |-> "alt", ss |-> ss, ic |-> TRUE]  \* (?:a|b)
ExactOneOf(ss) == [k |-> "alt", ss |-> ss, ic |-> FALSE]
Opt(s) == [k |-> "opt", s |-> s]                    \* s?
Lazy == [k |-> "lazy"]                              \* .+?
Greedy == [k |-> "greedy"]                          \* .+
Num == [k |-> "run", cs |-> Digits, min |-> 1]      \* \d+
Ws0 == [k |-> "run", cs |-> Whitespace, min |-> 0]  \* \s*
Ws1 == [k |-> "run", cs |-> Whitespace, min |-> 1]  \* \s+
Open(g) == [k |-> "open", g |-> g]                  \* (?P<g>
Close(g) == [k |-> "close", g |-> g]                \* )
End == [k |-> "end"]                                \* $
MatchStart == [i |-> 1, from |-> <<>>, to |-> <<>>]

\* the matches that follow match m of the items before item, on text t
MatchItem(item, t, lower, m) ==
    LET At(i) == [m EXCEPT !.i = i]
        After(lit, ic) ==
            IF StartsAt(IF ic THEN lower ELSE t, m.i, lit) THEN <<At(m.i + Len(lit))>>
            ELSE <<>>
        Alternatives(hits) == [h \in 1..Len(hits) |-> At(m.i + Len(item.ss[hits[h]]))]
        Longest(end) == [j \in 1..(end + 1 - (m.i + item.min)) |-> At(end + 1 - j)]
    IN  CASE item.k = "lit" -> After(item.s, item.ic)
          [] item.k = "alt" ->
                Alternatives(SelectSeq([j \in 1..Len(item.ss) |-> j],
                                       LAMBDA j : StartsAt(IF item.ic THEN lower ELSE t,
                                                           m.i, item.ss[j])))
          [] item.k = "opt" -> After(item.s, FALSE) \o <<m>>
          [] item.k = "lazy" -> [j \in 1..(Len(t) - m.i + 1) |-> At(m.i + j)]
          [] item.k = "greedy" -> [j \in 1..(Len(t) - m.i + 1) |-> At(Len(t) + 2 - j)]
          [] item.k = "run" -> Longest(RunEnd(t, m.i, item.cs))
          [] item.k = "open" -> <<[m EXCEPT !.from = (item.g :> m.i) @@ @]>>
          [] item.k = "close" -> <<[m EXCEPT !.to = (item.g :> m.i) @@ @]>>
          [] item.k = "end" -> IF m.i = Len(t) + 1 THEN <<m>> ELSE <<>>

\* the matches that follow the matches ms[a..b], in order, by halves
RECURSIVE MatchEach(_, _, _, _, _, _)
MatchEach(item, t, lower, ms, a, b) ==
    IF a > b THEN <<>>
    ELSE IF a = b THEN MatchItem(item, t, lower, ms[a])
    ELSE MatchEach(item, t, lower, ms, a, (a + b) \div 2)
             \o MatchEach(item, t, lower, ms, (a + b) \div 2 + 1, b)
\* the matches of items a..b of pat that follow the matches ms, by halves
RECURSIVE Match(_, _, _, _, _, _)
Match(pat, a, b, t, lower, ms) ==
    IF a > b \/ ms = <<>> THEN ms
    ELSE IF a = b THEN MatchEach(pat[a], t, lower, ms, 1, Len(ms))
    ELSE Match(pat, (a + b) \div 2 + 1, b, t, lower,
               Match(pat, a, (a + b) \div 2, t, lower, ms))

\* pattern.match(t): <<>> for None, else <<the match>>
ReMatch(pat, t) ==
    LET First(ms) == IF ms = <<>> THEN <<>> ELSE <<ms[1]>>
    IN  First(Match(pat, 1, Len(pat), t, Lower(t), <<MatchStart>>))
\* match.group(g)
Group(t, m, g) == SubSeq(t, m.from[g], m.to[g] - 1)

(***************************************************************************)
(* Text Normalizer (app.py).                                               *)
(***************************************************************************)
\* KINGDOM_COORD_RE = \(\s*(\d+:\d+)\s*\) matched at position i: the match as
\* [end |-> index after the match, coord |-> group 1], end = 0 when there is none
KingdomCoordAt(s, i) ==
    LET a == RunEnd(s, i + 1, Whitespace)
        b == RunEnd(s, a, Digits)
        c == RunEnd(s, b + 1, Digits)
        d == RunEnd(s, c, Whitespace)
    IN  IF /\ Ch(s, i) = "("
           /\ b > a
           /\ Ch(s, b) = ":"
           /\ c > b + 1
           /\ Ch(s, d) = ")"
        THEN [end |-> d + 1, coord |-> SubSeq(s, a, c - 1)]
        ELSE [end |-> 0, coord |-> None]

\* KINGDOM_COORD_RE.search(s): the leftmost match
KingdomCoordSearch(s) ==
    LET First(H) == IF H = {} THEN 0 ELSE CHOOSE i \in H : \A j \in H : i <= j
    IN  KingdomCoordAt(s, First({i \in 1..Len(s) : KingdomCoordAt(s, i).end > 0}))

\* KINGDOM_COORD_RE.sub("", s): every match removed, left to right
KingdomCoordSub(s) ==
    Cat(LAMBDA i : IF \E k \in 1..i : KingdomCoordAt(s, k).end > i THEN "" ELSE Ch(s, i),
        1, Len(s))

\* LEADING_SLOT_RE = ^\d+\s*-\s* removed from the start of s
LeadingSlotSub(s) ==
    LET a == RunEnd(s, 1, Digits)
        b == RunEnd(s, a, Whitespace)
        c == RunEnd(s, b + 1, Whitespace)
    IN  IF a > 1 /\ Ch(s, b) = "-" THEN From(s, c) ELSE s

extract_kingdom(raw_name) ==
    IF ~Truthy(raw_name) THEN None ELSE KingdomCoordSearch(raw_name).coord

\* cleaned or None
OrNone(cleaned) == IF cleaned = "" THEN None ELSE cleaned

normalize_party(raw_name) ==
    IF ~Truthy(raw_name) THEN None
    ELSE LET stripped == StripChars(Strip(raw_name), {"."})
             unslotted == LeadingSlotSub(stripped)
             uncoord == KingdomCoordSub(unslotted)
         IN  OrNone(StripChars(JoinSplit(uncoord), {" ", "-"}))

(***************************************************************************)
(* Day keys (app.py).                                                      *)
(***************************************************************************)
MonthNames == <<"January", "February", "March", "April", "May", "June", "July",
                "August", "September", "October", "November", "December">>
\* MONTH_INDEX[name] for the month name that text starts with, 0 when none does
MonthPrefix(text) ==
    IF \E m \in 1..12 : StartsAt(text, 1, MonthNames[m])
    THEN CHOOSE m \in 1..12 : StartsAt(text, 1, MonthNames[m])
    ELSE 0

\* EVENT_DAY_RE = ^(<month>)\s+(\d+)\s+of\s+YR(\d+)$ on text.strip()
EventDayRest(t, m, a) ==
    LET YearFrom(b, c, e) ==
            LET f == RunEnd(t, e + 2, Digits)
            IN  IF StartsAt(t, e, "YR") /\ f > e + 2 /\ f = Len(t) + 1
                THEN <<ToInt(SubSeq(t, e + 2, f - 1)), m, ToInt(SubSeq(t, b, c - 1))>>
                ELSE NoKey
        OfFrom(b, c, d) ==
            IF d > c /\ StartsAt(t, d, "of") /\ Ch(t, d + 2) \in Whitespace
            THEN YearFrom(b, c, RunEnd(t, d + 2, Whitespace))
            ELSE NoKey
        DayFrom(b, c) == IF c > b THEN OfFrom(b, c, RunEnd(t, c, Whitespace)) ELSE NoKey
        SpaceFrom(b) == IF b > a THEN DayFrom(b, RunEnd(t, b, Digits)) ELSE NoKey
    IN  SpaceFrom(RunEnd(t, a, Whitespace))
EventDayMatch(t, m) == IF m = 0 THEN NoKey ELSE EventDayRest(t, m, Len(MonthNames[m]) + 1)

parse_event_day(text) ==
    IF ~Truthy(text) THEN NoKey
    ELSE LET OnStripped(t) == EventDayMatch(t, MonthPrefix(t))
         IN  OnStripped(Strip(text))

\* Python's order on tuples of integers of the same length
KeyLess(a, b) ==
    \E i \in 1..Len(a) : a[i] < b[i] /\ \A j \in 1..(i - 1) : a[j] = b[j]
KeyLeq(a, b) == a = b \/ KeyLess(a, b)

\* str(n) for n >= 0
RECURSIVE Str(_)
Str(n) == IF n < 10 THEN Ch("0123456789", n + 1)
          ELSE Str(n \div 10) \o Ch("0123456789", (n % 10) + 1)

\* a or b, on text
Or(a, b) == IF Truthy(a) THEN a ELSE b

(***************************************************************************)
(* War event classification (app.py).                                      *)
(***************************************************************************)
\* POST_WAR_START_RE.match(summary): [ok, expiry]
PostWarStartLit == "our kingdom is now in a post-war period which will expire on "
PostWarStartMatch(summary) ==
    LET n == Len(PostWarStartLit)
    IN  IF /\ StartsAt(Lower(summary), 1, PostWarStartLit)
           /\ Len(summary) >= n + 2
           /\ Ch(summary, Len(summary)) = "."
        THEN [ok |-> TRUE, expiry |-> SubSeq(summary, n + 1, Len(summary) - 1)]
        ELSE [ok |-> FALSE, expiry |-> None]

\* POST_WAR_END_RE.match(summary)
PostWarEndMatch(summary) ==
    Lower(summary) \in {"our post-war period has ended", "our post-war period has ended!"}

classify_war_event(summary) ==
    LET text == Or(summary, "")
        lower == Lower(text)
    IN  IF PostWarStartMatch(text).ok THEN "postwar_start"
        ELSE IF PostWarEndMatch(text) THEN "postwar_end"
        ELSE IF Contains(lower, "declared war") THEN "declare"
        ELSE IF /\ Contains(lower, "war")
                /\ \/ Contains(lower, "withdrawn from war")
                   \/ Contains(lower, "won the war")
                   \/ Contains(lower, "war has finally ended")
                   \/ (Contains(lower, "war with") /\ Contains(lower, "has ended"))
        THEN "end"
        ELSE None

\* a classify_war_result that looks for victory before failure
classify_war_result_victory_first(summary) ==
    LET lower == Lower(Or(summary, ""))
    IN  IF Contains(lower, "won the war") \/ Contains(lower, "achieved victory")
        THEN "victory"
        ELSE IF \/ Contains(lower, "failed war")
                \/ Contains(lower, "unable to achieve victory")
                \/ Contains(lower, "withdrawn from war")
        THEN "failed"
        ELSE IF Contains(lower, "mutual peace") \/ Contains(lower, "ended in peace")
        THEN "peace"
        ELSE "ended"

classify_war_result(summary) ==
    LET lower == Lower(Or(summary, ""))
    IN  IF \/ Contains(lower, "failed war")
           \/ Contains(lower, "unable to achieve victory")
           \/ Contains(lower, "withdrawn from war")
        THEN "failed"
        ELSE IF Contains(lower, "won the war") \/ Contains(lower, "achieved victory")
        THEN "victory"
        ELSE IF Contains(lower, "mutual peace") \/ Contains(lower, "ended in peace")
        THEN "peace"
        ELSE IF \/ Contains(lower, "war has finally ended")
                \/ (Contains(lower, "war with") /\ Contains(lower, "ended"))
        THEN "ended"
        ELSE "ended"

\* WAR_DECLARE_PATTERNS[0] = ^We have declared WAR on (?P<opponent>.+?)!$
WeDeclaredLit == "we have declared war on "
WeDeclaredMatch(text) ==
    IF /\ StartsAt(Lower(text), 1, WeDeclaredLit)
       /\ Len(text) >= Len(WeDeclaredLit) + 2
       /\ Ch(text, Len(text)) = "!"
    THEN SubSeq(text, Len(WeDeclaredLit) + 1, Len(text) - 1)
    ELSE None

\* WAR_DECLARE_PATTERNS[1] = ^(?P<opponent>.+?) has declared WAR on us!?$
\* (the lazy group stops at the first place the rest of the pattern matches)
DeclaredOnUsMatch(text) ==
    LET lower == Lower(text)
        S == {i \in 2..Len(text) :
                 From(lower, i) \in {" has declared war on us", " has declared war on us!"}}
    IN  IF S = {} THEN None
        ELSE SubSeq(text, 1, (CHOOSE i \in S : \A j \in S : i <= j) - 1)

\* pattern.search(text) for <lit>(?P<opponent>.+?)(?:<stops>|$): the leftmost place
\* where lit is followed by a character, and from there the shortest non-empty
\* text that a stop (or the end) follows
LazyUntil(text, lit, stops) ==
    LET lower == Lower(text)
        S == {i \in 1..Len(text) : StartsAt(lower, i, lit) /\ i + Len(lit) <= Len(text)}
    IN  IF S = {} THEN None
        ELSE LET i == CHOOSE x \in S : \A y \in S : x <= y
                 j == i + Len(lit)
                 E == {k \in (j + 1)..(Len(text) + 1) :
                          k = Len(text) + 1 \/ \E st \in stops : StartsAt(lower, k, st)}
                 k == CHOOSE x \in E : \A y \in E : x <= y
             IN  SubSeq(text, j, k - 1)

\* the first of three pattern results that matched; m.group("opponent").strip()
FirstMatch(a, b, c) == IF a # None THEN a ELSE IF b # None THEN b ELSE c
StripMatch(m) == IF m # None THEN Strip(m) ELSE None

\* WAR_END_OPPONENT_PATTERNS, tried in order
WarEndOpponentSearch(text) ==
    FirstMatch(LazyUntil(text, "withdrawn from war with ", {".", "!"}),
               LazyUntil(text, "won the war with ", {".", "!"}),
               LazyUntil(text, "war with ", {" has finally ended", " has ended", ".", "!"}))

extract_war_opponent(summary) ==
    LET Search(text) ==
            FirstMatch(WeDeclaredMatch(text), DeclaredOnUsMatch(text), WarEndOpponentSearch(text))
    IN  StripMatch(Search(Strip(Or(summary, ""))))

(***************************************************************************)
(* Attack and aid summaries (app.py).                                      *)
(***************************************************************************)
Grp(g, items) == <<Open(g)>> \o items \o <<Close(g)>>
Actor == Grp("actor", <<Lazy>>)
Target == Grp("target", <<Lazy>>)
Acres == Grp("acres", <<Num>>)
Tail0 == <<Opt("."), End>>                          \* \.?$

AID_RE ==
    Actor \o <<Lit(" has sent an aid shipment to ")>> \o Target \o <<Lit("."), End>>

\* the patterns in the order parse_attack_summary tries them, each with the outcome
\* and the acres ("both": acres and target_loss_acres, "loss": target_loss_acres only)
AttackPatterns ==
    <<[outcome |-> "success", acres |-> "both",     \* ATTACK_SUCCESS_PATTERNS
       pat |-> Actor \o <<Lit(" captured ")>> \o Acres \o <<Lit(" acres of land from ")>>
                   \o Target \o Tail0],
      [outcome |-> "success", acres |-> "both",
       pat |-> Actor \o <<Lit(" invaded ")>> \o Target \o <<Lit(" and captured ")>>
                   \o Acres \o <<Lit(" acres of land")>> \o Tail0],
      [outcome |-> "success", acres |-> "both",
       pat |-> Actor \o <<Lit(" ambushed armies from ")>> \o Target \o <<Lit(" and took ")>>
                   \o Acres \o <<Lit(" acres of land")>> \o Tail0],
      [outcome |-> "success", acres |-> "both",     \* ATTACK_RECAPTURE_PATTERN
       pat |-> Actor \o <<Lit(" recaptured ")>> \o Acres \o <<Lit(" acres of land from ")>>
                   \o Target \o Tail0],
      [outcome |-> "success", acres |-> "loss",     \* ATTACK_RAZE_TARGET_PATTERN
       pat |-> Actor \o <<Lit(" razed ")>> \o Acres \o <<Lit(" acres of ")>>
                   \o Grp("target", <<Num, Ws0, Lit("-"), Ws0, Lazy>>) \o Tail0],
      [outcome |-> "success", acres |-> "loss",     \* ATTACK_INVADE_RAZE_PATTERN
       pat |-> Actor \o <<Lit(" invaded ")>> \o Target \o <<Lit(" and razed ")>>
                   \o Acres \o <<Lit(" acres of land")>> \o Tail0],
      [outcome |-> "failed", acres |-> "none",      \* ATTACK_FAILED_PATTERNS
       pat |-> Actor \o <<Lit(" attempted an invasion of ")>> \o Target
                   \o <<Lit(", but was repelled")>> \o Tail0],
      [outcome |-> "failed", acres |-> "none",
       pat |-> Actor \o <<Lit(" attempted to invade ")>> \o Target \o Tail0],
      [outcome |-> "success", acres |-> "none",     \* ATTACK_SUCCESS_NO_ACRES_PATTERNS
       pat |-> Actor \o <<Lit(" invaded and pillaged ")>> \o Target \o Tail0],
      [outcome |-> "success", acres |-> "none",
       pat |-> Actor \o <<Lit(" attacked and pillaged the lands of ")>> \o Target \o Tail0],
      [outcome |-> "success", acres |-> "none",
       pat |-> Actor \o <<Lit(" learned ")>> \o Target \o Tail0]>>

\* <<>> for None, else <<the dict>>
parse_aid_summary(summary) ==
    LET Parse(text, ms) ==
            IF ms = <<>> THEN <<>>
            ELSE <<[actor_raw |-> Group(text, ms[1], "actor"),
                    target_raw |-> Group(text, ms[1], "target")]>>
        OnStripped(text) == Parse(text, ReMatch(AID_RE, text))
    IN  OnStripped(Strip(Or(summary, "")))

\* a classify_attack_type that looks for a capture first
classify_attack_type_capture_first(summary) ==
    LET Type(lower) ==
            IF Contains(lower, "captured") \/ Contains(lower, "invaded")
            THEN "Traditional March"
            ELSE IF Contains(lower, "ambushed armies from") \/ Contains(lower, "recaptured")
            THEN "Ambush"
            ELSE IF Contains(lower, "massacre") THEN "Massacre"
            ELSE IF Contains(lower, "learned") \/ Contains(lower, "learn attack") THEN "Learn"
            ELSE IF Contains(lower, "plundered") \/ Contains(lower, "pillaged") THEN "Plunder"
            ELSE IF Contains(lower, "razed") THEN "Raze"
            ELSE IF Contains(lower, "conquest") \/ Contains(lower, "conquered") THEN "Conquest"
            ELSE "Other"
    IN  Type(Lower(Strip(Or(summary, ""))))

classify_attack_type(summary) ==
    LET Type(lower) ==
            IF Contains(lower, "ambushed armies from") \/ Contains(lower, "recaptured")
            THEN "Ambush"
            ELSE IF Contains(lower, "massacre") THEN "Massacre"
            ELSE IF Contains(lower, "learned") \/ Contains(lower, "learn attack") THEN "Learn"
            ELSE IF Contains(lower, "plundered") \/ Contains(lower, "pillaged") THEN "Plunder"
            ELSE IF Contains(lower, "razed") THEN "Raze"
            ELSE IF Contains(lower, "conquest") \/ Contains(lower, "conquered") THEN "Conquest"
            ELSE IF Contains(lower, "captured") \/ Contains(lower, "invaded")
            THEN "Traditional March"
            ELSE "Other"
    IN  Type(Lower(Strip(Or(summary, ""))))

\* the dict parse_attack_summary returns for the first pattern that matches
AttackParsed(text, n, m, attack_type) ==
    LET acres == IF AttackPatterns[n].acres = "none" THEN 0
                 ELSE ToInt(Group(text, m, "acres"))
    IN  [outcome |-> AttackPatterns[n].outcome,
         acres |-> IF AttackPatterns[n].acres = "both" THEN acres ELSE 0,
         target_loss_acres |-> acres,
         actor_raw |-> Group(text, m, "actor"),
         target_raw |-> Group(text, m, "target"),
         attack_type |-> attack_type]

parse_attack_summary(summary) ==
    LET First(text, P) ==
            IF P = {}
            THEN [outcome |-> "unknown", acres |-> 0, target_loss_acres |-> 0,
                  actor_raw |-> None, target_raw |-> None,
                  attack_type |-> classify_attack_type(text)]
            ELSE LET n == CHOOSE x \in P : \A y \in P : x <= y
                 IN  AttackParsed(text, n, ReMatch(AttackPatterns[n].pat, text)[1],
                                  classify_attack_type(text))
        Parse(text) ==
            First(text, {n \in 1..Len(AttackPatterns) :
                            ReMatch(AttackPatterns[n].pat, text) # <<>>})
    IN  Parse(Strip(Or(summary, "")))

(***************************************************************************)
(* News parser (parser.py): from the text lines of a fetched page to the   *)
(* rows of kd_news_events.                                                 *)
(***************************************************************************)
EVENT_LINE_RE ==
    Grp("time", <<ExactOneOf(MonthNames), Ws1, Num, Ws1, Exact("of"), Ws1, Exact("YR"), Num>>)
        \o <<Ws1>> \o Grp("rest", <<Greedy>>) \o <<End>>
CoordItems == <<Lit("("), Ws0, Num, Lit(":"), Num, Ws0, Lit(")")>>   \* \(\s*\d+:\d+\s*\)
SlotItems == <<Num, Ws0, Lit("-"), Ws0>>                             \* \d+\s*-\s*
ATTACK_ACTOR_TARGET_RE ==
    SlotItems \o Actor \o <<Ws1>> \o CoordItems \o <<Lazy, OneOf(<<"from", "and">>), Ws1>>
        \o SlotItems \o Target \o <<Ws1>> \o CoordItems
INTEL_OP_KEYWORDS ==
    {"thie", "thief", "operation", "op ", "nightstrike", "propaganda", "rob", "stole",
     "steal", "kidnap", "spy", "sabotage", "assassinate", "wizard", "spell", "magic",
     "meteor", "fireball", "failed", "succeeded"}
MinIntelLineLen == 18

\* hashlib.sha256(s).hexdigest(): one digest per text
sha256_text(s) == <<"sha256", s>>
normalize_text(s) == JoinSplit(s)

\* <<event_time_text, summary>>
split_event_line(line) ==
    LET Split(ms) == IF ms = <<>> THEN <<None, line>>
                     ELSE <<Group(line, ms[1], "time"), Group(line, ms[1], "rest")>>
    IN  Split(ReMatch(EVENT_LINE_RE, line))

LineCategory(lower) ==
    IF Contains(lower, "dragon") THEN "dragon"
    ELSE IF \E token \in {"stole", "thieves", "robbed", "nightstrike", "propaganda"} :
                Contains(lower, token)
    THEN "thievery"
    ELSE IF \E token \in {"spell", "cast", "magic", "meteor", "fireball", "nightmare"} :
                Contains(lower, token)
    THEN "magic"
    ELSE IF Contains(lower, "aid shipment") THEN "aid"
    ELSE IF \E token \in {"ceasefire", "hostile", "declared war", "at war",
                          "withdrawn from war", "surrendered", "relations changed"} :
                Contains(lower, token)
    THEN "diplomacy"
    ELSE IF \E token \in {"captured", "invaded", "attempted an invasion",
                          "attempted to invade", "repelled", "ambushed", "massacre",
                          "attacked", "raze", "plundered", "learned"} :
                Contains(lower, token)
    THEN "attack"
    ELSE "other"

\* [category, actor, target, summary]
classify_line(summary) ==
    LET Party(aid, atk, g) ==
            IF aid # <<>> /\ Truthy(Group(summary, aid[1], g)) THEN Group(summary, aid[1], g)
            ELSE IF atk # <<>> THEN Group(summary, atk[1], g)
            ELSE None
        Classified(aid, atk) ==
            [category |-> LineCategory(Lower(summary)),
             actor |-> Party(aid, atk, "actor"),
             target |-> Party(aid, atk, "target"),
             summary |-> summary]
    IN  Classified(ReMatch(AID_RE, summary), ReMatch(ATTACK_ACTOR_TARGET_RE, summary))

\* the texts of texts that pass Keep, normalized, each once, in order
RECURSIVE ExtractLines(_, _, _)
ExtractLines(texts, Keep(_), seen) ==
    IF texts = <<>> THEN <<>>
    ELSE LET Rest(text) ==
                 IF Keep(text) /\ text \notin seen
                 THEN <<text>> \o ExtractLines(Tail(texts), Keep, seen \cup {text})
                 ELSE ExtractLines(Tail(texts), Keep, seen)
         IN  Rest(normalize_text(Head(texts)))
\* a page is the sequence of the texts of its nodes and lines
extract_news_lines(html) ==
    ExtractLines(html, LAMBDA text : text # "" /\ ReMatch(EVENT_LINE_RE, text) # <<>>, {})
extract_intel_ops_lines(html) ==
    ExtractLines(html,
                 LAMBDA line : /\ Len(line) >= MinIntelLineLen
                               /\ \E keyword \in INTEL_OP_KEYWORDS :
                                      Contains(Lower(line), keyword),
                 {})

\* the tuple parse_and_store_news appends to rows_to_upsert for a line
NewsRow(fetched_at_utc, line) ==
    LET Row(split, c) ==
            [fetched_at_utc |-> fetched_at_utc,
             event_time_text |-> split[1],
             category |-> c.category,
             actor |-> c.actor,
             target |-> c.target,
             summary |-> c.summary,
             raw_line |-> line,
             sha256 |-> sha256_text(line)]
        OnSplit(split) == Row(split, classify_line(split[2]))
    IN  OnSplit(split_event_line(line))

(***************************************************************************)
(* Land-Impact Policy (app.py).                                            *)
(***************************************************************************)
\* a policy that zeroes every Raze, in war or not
LandImpactRazeAlwaysZero(acres_transfer, target_loss_acres, attack_type, is_war_context) ==
    IF attack_type = "Raze" THEN 0
    ELSE IF acres_transfer > 0 THEN acres_transfer ELSE target_loss_acres
effective_land_impact(acres_transfer, target_loss_acres, attack_type, is_war_context) ==
    IF is_war_context /\ attack_type = "Raze" THEN 0
    ELSE IF acres_transfer > 0 THEN acres_transfer ELSE target_loss_acres

(***************************************************************************)
(* War Lifecycle Reconstructor: build_war_rows (app.py).                   *)
(* A war row is a record; open_wars holds the positions in wars of the     *)
(* rows the Python list open_wars refers to.                               *)
(***************************************************************************)
\* what build_war_rows reads from one event's summary
ParseWarSummary(summary) ==
    LET Fields(opponent_raw, expiry) ==
            [event_type |-> classify_war_event(summary),
             opponent_raw |-> opponent_raw,
             opponent_name |-> normalize_party(opponent_raw),
             opponent_kingdom |-> extract_kingdom(opponent_raw),
             result |-> classify_war_result(summary),
             expiry |-> StripMatch(expiry)]
    IN  Fields(extract_war_opponent(summary), PostWarStartMatch(summary).expiry)

\* closing texts: an end of the war with Foo (2:3), then up to two more sentences
\* with the phrases classify_war_result looks for
ClosingOpenings ==
    {"We have won the war with Foo (2:3)!",
     "Our kingdom has withdrawn from war with Foo (2:3).",
     "war with Foo (2:3) has ended.",
     "The war has finally ended."}
ClosingSentences ==
    {"",
     " It was a failed war.",
     " We were unable to achieve victory.",
     " We achieved victory.",
     " A mutual peace was agreed.",
     " It ended in peace."}
ClosingTexts ==
    {opening \o middle \o last :
        opening \in ClosingOpenings, middle \in ClosingSentences,
        last \in {"", " It ended in peace."}}

\* the summaries of the model's war events, and what build_war_rows reads from each
WarSummaries ==
    ClosingTexts \cup
    {"We have declared WAR on Foo (2:3)!",
     "Bar (4:5) has declared WAR on us!",
     "Bar (2:3) has declared WAR on us!",
     "war with Foo (2:3) has ended.",
     "We have won the war with Bar (4:5)!",
     "Our kingdom has withdrawn from war with Bar (2:3).",
     "war with Baz (7:7) has ended.",
     "Our kingdom is now in a post-war period which will expire on March 1 of YR1.",
     "Our post-war period has ended!",
     "A dragon has begun ravaging our lands!"}
ParsedWarSummaries == [s \in WarSummaries |-> ParseWarSummary(s)]
WarSummary(summary) == ParsedWarSummaries[summary]

\* the dict a declare event appends to wars
NewWarRow(seq, opponent_name, opponent_kingdom, day_text, day_key) ==
    [war_id |-> Str(seq),
     opponent_name |-> opponent_name,
     opponent_kingdom |-> opponent_kingdom,
     start_day |-> day_text,
     start_key |-> day_key,
     end_day |-> "",
     end_key |-> NoKey,
     result |-> "active",
     status |-> "active",
     end_summary |-> "",
     postwar_expires |-> "",
     postwar_end_day |-> "",
     hits_for |-> 0,
     hits_against |-> 0,
     acres_for |-> 0,
     acres_against |-> 0,
     net_acres |-> 0]

day_in_war(day_key, war_row) ==
    IF day_key = NoKey \/ war_row.start_key = NoKey THEN FALSE
    ELSE IF KeyLess(day_key, war_row.start_key) THEN FALSE
    ELSE IF war_row.end_key # NoKey /\ KeyLess(war_row.end_key, day_key) THEN FALSE
    ELSE TRUE

\* a find_open_war that falls back to the last war, open or closed
find_last_war(ws, open, opponent_kingdom, opponent_name) ==
    LET Hit(k) ==
            \/ Truthy(opponent_kingdom) /\ ws[open[k]].opponent_kingdom = opponent_kingdom
            \/ Truthy(opponent_name) /\ Lower(ws[open[k]].opponent_name) = Lower(opponent_name)
        H == {k \in 1..Len(open) : Hit(k)}
    IN  IF H # {} THEN open[CHOOSE k \in H : \A j \in H : j <= k]
        ELSE Len(ws)

\* find_open_war: the position in wars of the row returned, 0 for None
find_open_war(ws, open, opponent_kingdom, opponent_name) ==
    LET Hit(k) ==
            \/ Truthy(opponent_kingdom) /\ ws[open[k]].opponent_kingdom = opponent_kingdom
            \/ Truthy(opponent_name) /\ Lower(ws[open[k]].opponent_name) = Lower(opponent_name)
        H == {k \in 1..Len(open) : Hit(k)}
    IN  IF H # {} THEN open[CHOOSE k \in H : \A j \in H : j <= k]
        ELSE IF Len(open) > 0 THEN open[Len(open)]
        ELSE 0

\* the events in the order the caller passed them
ListOrder(events) == events

\* sorted(war_events, key=(day_key or (9999, 99, 99), row_id)): a stable insertion sort
WarEventKey(event) ==
    (IF event.day_key # NoKey THEN event.day_key ELSE <<9999, 99, 99>>) \o <<event.row_id>>
RECURSIVE InsertWarEvent(_, _)
InsertWarEvent(sorted, x) ==
    IF sorted = <<>> THEN <<x>>
    ELSE IF KeyLess(WarEventKey(x), WarEventKey(sorted[Len(sorted)]))
         THEN Append(InsertWarEvent(SubSeq(sorted, 1, Len(sorted) - 1), x), sorted[Len(sorted)])
         ELSE Append(sorted, x)
RECURSIVE SortWarEvents(_)
SortWarEvents(events) ==
    IF events = <<>> THEN <<>>
    ELSE InsertWarEvent(SortWarEvents(SubSeq(events, 1, Len(events) - 1)), events[Len(events)])

\* a declare that reopens the last closed war against the same opponent
ApplyDeclareReopening(st, event, p) ==
    LET C == {k \in 1..Len(st.wars) :
                 /\ st.wars[k].status = "closed"
                 /\ st.wars[k].opponent_kingdom = p.opponent_kingdom}
        Reopen(k) == [st EXCEPT !.wars[k].status = "active",
                                !.wars[k].result = "active",
                                !.open_wars = Append(@, k)]
    IN  IF C # {} THEN Reopen(CHOOSE k \in C : \A j \in C : j <= k)
        ELSE [wars |-> Append(st.wars,
                              NewWarRow(st.war_seq + 1,
                                        Or(p.opponent_name, Or(p.opponent_raw, "Unknown Kingdom")),
                                        p.opponent_kingdom,
                                        Or(event.event_time_text, ""), event.day_key)),
              open_wars |-> Append(st.open_wars, Len(st.wars) + 1),
              war_seq |-> st.war_seq + 1]
\* the loop body for event_type == "declare", on st = [wars, open_wars, war_seq];
\* p is what the summary of the event parses to
ApplyDeclare(st, event, p) ==
    LET seq == st.war_seq + 1
        opponent_name == Or(p.opponent_name, Or(p.opponent_raw, "Unknown Kingdom"))
        war_row == NewWarRow(seq, opponent_name, p.opponent_kingdom,
                             Or(event.event_time_text, ""), event.day_key)
    IN  [wars |-> Append(st.wars, war_row),
         open_wars |-> Append(st.open_wars, Len(st.wars) + 1),
         war_seq |-> seq]

\* the loop body for event_type == "end"
ApplyEnd(st, event, p) ==
    LET opponent_name == IF Truthy(p.opponent_raw) THEN p.opponent_name ELSE None
        opponent_kingdom == IF Truthy(p.opponent_raw) THEN p.opponent_kingdom ELSE None
        CloseRow(w) ==
            IF w = 0 THEN st
            ELSE [st EXCEPT
                    !.wars[w].end_day = Or(event.event_time_text, ""),
                    !.wars[w].end_key = event.day_key,
                    !.wars[w].end_summary = event.summary,
                    !.wars[w].result = p.result,
                    !.wars[w].status = "closed",
                    !.open_wars = SelectSeq(st.open_wars, LAMBDA k : k # w)]
    IN  CloseRow(find_open_war(st.wars, st.open_wars, opponent_kingdom, opponent_name))

\* the loop body for event_type == "postwar_start"
ApplyPostwarStart(st, event, p) ==
    LET C == {k \in 1..Len(st.wars) :
                 st.wars[k].status = "closed" /\ ~Truthy(st.wars[k].postwar_expires)}
    IN  IF p.expiry = None \/ C = {} THEN st
        ELSE [st EXCEPT !.wars[CHOOSE k \in C : \A j \in C : j <= k].postwar_expires = p.expiry]

\* the loop body for event_type == "postwar_end"
ApplyPostwarEnd(st, event) ==
    LET C == {k \in 1..Len(st.wars) :
                 Truthy(st.wars[k].postwar_expires) /\ ~Truthy(st.wars[k].postwar_end_day)}
    IN  IF C = {} THEN st
        ELSE [st EXCEPT !.wars[CHOOSE k \in C : \A j \in C : j <= k].postwar_end_day =
                             Or(event.event_time_text, "")]

\* one iteration of the loop over ordered_war_events
ApplyWarEvent(st, event) ==
    LET Apply(p) ==
            IF p.event_type = "declare" THEN ApplyDeclare(st, event, p)
            ELSE IF p.event_type = "end" THEN ApplyEnd(st, event, p)
            ELSE IF p.event_type = "postwar_start" THEN ApplyPostwarStart(st, event, p)
            ELSE IF p.event_type = "postwar_end" THEN ApplyPostwarEnd(st, event)
            ELSE st
    IN  Apply(WarSummary(event.summary))

\* the body of the loop over attack_records, for one war row and one attack
CountAttack(war_row, attack, home) ==
    IF ~day_in_war(attack.day_key, war_row) THEN war_row
    ELSE LET impact_acres == effective_land_impact(attack.acres, attack.target_loss_acres,
                                                   attack.attack_type, TRUE)
             counts == attack.outcome = "success" /\ impact_acres > 0
         IN  IF attack.actor_kingdom = home /\ attack.target_kingdom = war_row.opponent_kingdom
             THEN [war_row EXCEPT !.hits_for = @ + 1,
                                  !.acres_for = IF counts THEN @ + impact_acres ELSE @]
             ELSE IF /\ attack.actor_kingdom = war_row.opponent_kingdom
                     /\ attack.target_kingdom = home
             THEN [war_row EXCEPT !.hits_against = @ + 1,
                                  !.acres_against = IF counts THEN @ + impact_acres ELSE @]
             ELSE war_row

RECURSIVE CountAttacks(_, _, _)
CountAttacks(war_row, attacks, home) ==
    IF attacks = <<>> THEN war_row
    ELSE CountAttack(CountAttacks(war_row, SubSeq(attacks, 1, Len(attacks) - 1), home),
                     attacks[Len(attacks)], home)

\* the block "if home_kingdom:" after the event loop
AttributeAttacks(ws, attacks, home) ==
    IF ~Truthy(home) THEN ws
    ELSE [k \in 1..Len(ws) |->
            IF ~Truthy(ws[k].opponent_kingdom) THEN ws[k]
            ELSE LET counted == CountAttacks(ws[k], attacks, home)
                 IN  [counted EXCEPT !.net_acres = counted.acres_for - counted.acres_against]]

\* the closing loop over wars: result of active wars, "-" placeholders
FinalizeWarRow(war_row) ==
    [war_row EXCEPT
        !.result = IF war_row.status = "active" THEN "active" ELSE @,
        !.end_day = Or(@, "-"),
        !.postwar_expires = Or(@, "-"),
        !.postwar_end_day = Or(@, "-")]
\* the f-string war_label, from the finalized row
WarLabel(war_row) ==
    war_row.start_day \o " -> " \o war_row.end_day \o " vs " \o war_row.opponent_name
        \o " (" \o Or(war_row.opponent_kingdom, "?") \o ") [" \o war_row.result \o "]"
LabelWarRow(war_row) ==
    [k \in DOMAIN war_row \cup {"war_label"} |->
        IF k = "war_label" THEN WarLabel(war_row) ELSE war_row[k]]

\* wars.sort(key=start_key or (-1, -1, -1), reverse=True): stable, descending
WarSortKey(war_row) ==
    IF war_row.start_key # NoKey THEN war_row.start_key ELSE <<-1, -1, -1>>
RECURSIVE InsertDescending(_, _)
InsertDescending(sorted, x) ==
    IF sorted = <<>> THEN <<x>>
    ELSE IF KeyLess(WarSortKey(sorted[Len(sorted)]), WarSortKey(x))
         THEN Append(InsertDescending(SubSeq(sorted, 1, Len(sorted) - 1), x), sorted[Len(sorted)])
         ELSE Append(sorted, x)
RECURSIVE SortWarsDescending(_)
SortWarsDescending(ws) ==
    IF ws = <<>> THEN <<>>
    ELSE InsertDescending(SortWarsDescending(SubSeq(ws, 1, Len(ws) - 1)), ws[Len(ws)])

FinalizeWars(ws) ==
    SortWarsDescending([k \in 1..Len(ws) |-> LabelWarRow(FinalizeWarRow(ws[k]))])

\* the loop over ordered_war_events, from st
RECURSIVE RunWarEvents(_, _)
RunWarEvents(st, events) ==
    IF events = <<>> THEN st
    ELSE ApplyWarEvent(RunWarEvents(st, SubSeq(events, 1, Len(events) - 1)), events[Len(events)])

\* build_war_rows(war_events, attack_records, home_kingdom) as one call
build_war_rows(events, attacks, home) ==
    LET st == RunWarEvents([wars |-> <<>>, open_wars |-> <<>>, war_seq |-> 0],
                           SortWarEvents(events))
    IN  FinalizeWars(AttributeAttacks(st.wars, attacks, home))

(***************************************************************************)
(* build_war_rows as a state machine: one step per loop iteration.         *)
(***************************************************************************)
MaxEvents == 3
MaxAttrEvents == 3
MaxAttacks == 2

NoCall == [fn |-> "none"]
NoPureCall == call = NoCall
NoHits == [successful_hits |-> 0, failed_hits |-> 0, acres_exchanged |-> 0, aid_shipments |-> 0]
\* build_dashboard_analytics not running
NoDashRun ==
    /\ rows = <<>>
    /\ forced_home_kingdom = None
    /\ row_i = 0
    /\ category_counts = <<>>
    /\ provinces = <<>>
    /\ kingdom_mentions = <<>>
    /\ hit_totals = NoHits
    /\ war_rows = <<>>
    /\ rec_i = 0
    /\ opponent_pressure = <<>>
    /\ home_land_by_day = <<>>
    /\ dashboard = None
    /\ dpc = "idle"
\* an empty database
NoIngest ==
    /\ fetch_log = <<>>
    /\ kd_news_events = <<>>
    /\ news_seq = 0
    /\ now = 0
\* INGEST_STATE as the module defines it
NoFreshness ==
    INGEST_STATE = [enabled |-> FALSE, running |-> FALSE, iterations |-> 0,
                    last_started_utc |-> None, last_success_utc |-> None,
                    last_duration_seconds |-> None, last_parsed_events |-> None,
                    last_error |-> None]
\* no ingest-worker thread, STOP_EVENT clear, INGEST_THREAD_LOCK free
NoWorker ==
    /\ STOP_EVENT = FALSE
    /\ INGEST_THREAD = 0
    /\ INGEST_THREAD_LOCK = "free"
    /\ threads = <<>>
\* an empty ANALYTICS_CACHE and no object of a cached value
NoCache ==
    /\ ANALYTICS_CACHE = <<>>
    /\ heap = <<>>
NoHandler == [pc |-> "idle", value |-> 0]
\* the module as imported, with nobody to call into it
NoService ==
    /\ NoFreshness /\ NoWorker /\ NoCache
    /\ starters = <<>>
    /\ handler = NoHandler
Elsewhere == NoPureCall /\ NoDashRun /\ NoIngest /\ NoService

\* the dict build_dashboard_analytics appends to war_events for a row
WarEvent(row_id, summary, day_text) ==
    [row_id |-> row_id,
     event_type |-> WarSummary(summary).event_type,
     summary |-> summary,
     event_time_text |-> day_text,
     day_key |-> parse_event_day(day_text)]

\* inputs of the lifecycle specification: any list of up to MaxEvents events
LifecycleSummaries ==
    {"We have declared WAR on Foo (2:3)!",
     "Bar (4:5) has declared WAR on us!",
     "war with Foo (2:3) has ended.",
     "Our kingdom is now in a post-war period which will expire on March 1 of YR1.",
     "Our post-war period has ended!",
     "A dragon has begun ravaging our lands!"}
LifecycleDays == {"", "January 2 of YR1", "February 1 of YR1"}

\* inputs of the attribution specification: wars with one opponent on two days,
\* attacks on three days between the home kingdom, the opponent and a third kingdom
AttrEvents ==
    ({"We have declared WAR on Foo (2:3)!", "war with Foo (2:3) has ended."}
        \X {"January 2 of YR1", "February 1 of YR1"})
    \cup {<<"Our kingdom is now in a post-war period which will expire on March 1 of YR1.",
            "February 1 of YR1">>,
          <<"Our post-war period has ended!", "February 1 of YR1">>,
          <<"A dragon has begun ravaging our lands!", "January 2 of YR1">>}
AttackDays == {"January 2 of YR1", "February 1 of YR1", "February 2 of YR1"}
TraditionalMarch == <<"success", "Traditional March", 40, 40>>
RazeHit == <<"success", "Raze", 0, 7>>
FailedMarch == <<"failed", "Traditional March", 0, 0>>
AttackShapes ==
    ({<<"1:1", "2:3">>} \X {TraditionalMarch, RazeHit, FailedMarch})
    \cup ({<<"2:3", "1:1">>} \X {TraditionalMarch, FailedMarch})
    \cup ({<<"4:5", "1:1">>} \X {TraditionalMarch})
\* the dict build_dashboard_analytics appends to attack_records
AttackRecord(row_id, day_text, side, kind) ==
    [row_id |-> row_id,
     day_key |-> parse_event_day(day_text),
     actor_kingdom |-> side[1],
     target_kingdom |-> side[2],
     actor_name |-> "Actor",
     target_name |-> "Target",
     outcome |-> kind[1],
     attack_type |-> kind[2],
     acres |-> kind[3],
     target_loss_acres |-> kind[4]]

\* build_war_rows not running
NoWarRun ==
    /\ war_events = <<>>
    /\ attack_records = <<>>
    /\ home_kingdom = None
    /\ ordered_war_events = <<>>
    /\ ev_i = 0
    /\ wars = <<>>
    /\ open_wars = <<>>
    /\ war_seq = 0
    /\ wpc = "idle"

WarStart ==
    /\ ordered_war_events = <<>>
    /\ ev_i = 0
    /\ wars = <<>>
    /\ open_wars = <<>>
    /\ war_seq = 0
    /\ wpc = "sort"

InitLifecycle ==
    /\ Elsewhere
    /\ \E n \in 0..MaxEvents : \E f \in [1..n -> LifecycleSummaries \X LifecycleDays] :
          war_events = [i \in 1..n |-> WarEvent(i, f[i][1], f[i][2])]
    /\ attack_records = <<>>
    /\ home_kingdom = "1:1"
    /\ WarStart

InitAttribution ==
    /\ Elsewhere
    /\ \E n \in 0..MaxAttrEvents : \E f \in [1..n -> AttrEvents] :
          war_events = [i \in 1..n |-> WarEvent(i, f[i][1], f[i][2])]
    /\ \E n \in 0..MaxAttacks : \E f \in [1..n -> AttackDays \X AttackShapes] :
          attack_records =
              [i \in 1..n |-> AttackRecord(100 + i, f[i][1], f[i][2][1], f[i][2][2])]
    /\ home_kingdom = "1:1"
    /\ WarStart

WarState == [wars |-> wars, open_wars |-> open_wars, war_seq |-> war_seq]
InLoop == wpc = "loop" /\ ev_i <= Len(ordered_war_events)
Event == ordered_war_events[ev_i]
Parsed == WarSummary(Event.summary)
Becomes(st) ==
    /\ wars' = st.wars
    /\ open_wars' = st.open_wars
    /\ war_seq' = st.war_seq
    /\ ev_i' = ev_i + 1
    /\ UNCHANGED <<callVars, dashVars, ingestVars, serviceVars, warInputs, ordered_war_events, wpc>>

SortEvents ==
    /\ wpc = "sort"
    /\ ordered_war_events' = SortWarEvents(war_events)
    /\ ev_i' = 1
    /\ wpc' = "loop"
    /\ UNCHANGED <<callVars, dashVars, ingestVars, serviceVars, warInputs, wars, open_wars, war_seq>>

SkipEvent == InLoop /\ Parsed.event_type = None /\ Becomes(WarState)
DeclareEvent ==
    LET Step(p) == p.event_type = "declare" /\ Becomes(ApplyDeclare(WarState, Event, p))
    IN  InLoop /\ Step(Parsed)
EndEvent ==
    LET Step(p) == p.event_type = "end" /\ Becomes(ApplyEnd(WarState, Event, p))
    IN  InLoop /\ Step(Parsed)
PostwarStartEvent ==
    LET Step(p) == p.event_type = "postwar_start"
                   /\ Becomes(ApplyPostwarStart(WarState, Event, p))
    IN  InLoop /\ Step(Parsed)
PostwarEndEvent ==
    InLoop /\ Parsed.event_type = "postwar_end" /\ Becomes(ApplyPostwarEnd(WarState, Event))

AttributeStep ==
    /\ wpc = "loop"
    /\ ev_i > Len(ordered_war_events)
    /\ wars' = AttributeAttacks(wars, attack_records, home_kingdom)
    /\ wpc' = "finalize"
    /\ UNCHANGED <<callVars, dashVars, ingestVars, serviceVars, warInputs, ordered_war_events, ev_i,
                   open_wars, war_seq>>

FinalizeStep ==
    /\ wpc = "finalize"
    /\ wars' = FinalizeWars(wars)
    /\ wpc' = "done"
    /\ UNCHANGED <<callVars, dashVars, ingestVars, serviceVars, warInputs, ordered_war_events, ev_i,
                   open_wars, war_seq>>

NextWar ==
    \/ SortEvents
    \/ SkipEvent
    \/ DeclareEvent
    \/ EndEvent
    \/ PostwarStartEvent
    \/ PostwarEndEvent
    \/ AttributeStep
    \/ FinalizeStep

SpecLifecycle == InitLifecycle /\ [][NextWar]_vars
SpecAttribution == InitAttribution /\ [][NextWar]_vars

\* inputs of the resolution specification: a chronological log of up to
\* MaxResolutionEvents events, one a day; wars with Bar (4:5) and Bar (2:3), which
\* share a name, their ends, and the end of a war with a kingdom nobody declared on
MaxResolutionEvents == 5
ResolutionSummaries ==
    {"Bar (4:5) has declared WAR on us!",
     "Bar (2:3) has declared WAR on us!",
     "We have won the war with Bar (4:5)!",
     "Our kingdom has withdrawn from war with Bar (2:3).",
     "war with Baz (7:7) has ended.",
     "Our kingdom is now in a post-war period which will expire on March 1 of YR1.",
     "Our post-war period has ended!",
     "A dragon has begun ravaging our lands!"}
ResolutionDay(i) == "January " \o Str(i) \o " of YR1"
InitResolution ==
    /\ Elsewhere
    /\ \E n \in 0..MaxResolutionEvents : \E f \in [1..n -> ResolutionSummaries] :
          war_events = [i \in 1..n |-> WarEvent(i, f[i], ResolutionDay(i))]
    /\ attack_records = <<>>
    /\ home_kingdom = "1:1"
    /\ WarStart

SpecResolution == InitResolution /\ [][NextWar]_vars

\* inputs of the post-war specification: wars with Bar (4:5) and Bar (2:3) declared
\* on the first two days, then a chronological log of up to MaxPostwarEvents
\* closings and post-war events, one a day
MaxPostwarEvents == 5
TwoDeclarations ==
    <<"Bar (4:5) has declared WAR on us!", "Bar (2:3) has declared WAR on us!">>
PostwarSummaries ==
    {"We have won the war with Bar (4:5)!",
     "Our kingdom has withdrawn from war with Bar (2:3).",
     "Our kingdom is now in a post-war period which will expire on March 1 of YR1.",
     "Our post-war period has ended!",
     "A dragon has begun ravaging our lands!"}
InitPostwar ==
    /\ Elsewhere
    /\ \E n \in 0..MaxPostwarEvents : \E f \in [1..n -> PostwarSummaries] :
          war_events = [i \in 1..(n + 2) |->
                           WarEvent(i, IF i <= 2 THEN TwoDeclarations[i] ELSE f[i - 2],
                                    ResolutionDay(i))]
    /\ attack_records = <<>>
    /\ home_kingdom = "1:1"
    /\ WarStart

SpecPostwar == InitPostwar /\ [][NextWar]_vars

(***************************************************************************)
(* Dashboard Aggregator: build_dashboard_analytics (app.py).  A dict that  *)
(* is read in insertion order is the sequence of its values; a dict that   *)
(* is only read by key is a function.                                      *)
(***************************************************************************)
MaxRows == 3
LeaderboardRows == 18
OpponentRows == 14

\* the news lines of the model: a war with Foo (2:3) from January 1 to January 10,
\* attacks in both directions in and after the war, an aid shipment, a dragon
DashLines ==
    {"January 1 of YR1 We have declared WAR on Foo (2:3)!",
     "January 3 of YR1 1 - Home (1:1) captured 40 acres of land from 2 - Foo (2:3).",
     "January 10 of YR1 war with Foo (2:3) has ended.",
     "January 3 of YR1 2 - Foo (2:3) attempted to invade 1 - Home (1:1).",
     "January 4 of YR1 1 - Home (1:1) attempted an invasion of 2 - Foo (2:3), but was repelled.",
     "January 4 of YR1 1 - Home (1:1) razed 7 acres of 2 - Foo (2:3).",
     "January 12 of YR1 2 - Foo (2:3) captured 12 acres of land from 1 - Home (1:1).",
     "January 5 of YR1 2 - Foo (2:3) has sent an aid shipment to 3 - Bar (2:3).",
     "January 6 of YR1 A dragon has begun ravaging our lands!"}
\* a province whose name holds a word of the attack-type ladder razes in the war
LandSwingLines ==
    {"January 4 of YR1 1 - Learned Ones (1:1) razed 7 acres of 2 - Foo (2:3).",
     "January 5 of YR1 2 - Foo (2:3) invaded 1 - Home (1:1) and razed 9 acres of land."}
\* what the parser stores for each line, and the row fetch_event_rows selects
StoredLines == [line \in DashLines \cup LandSwingLines |-> NewsRow(0, line)]
EventRow(id, stored) ==
    [id |-> id,
     fetched_at_utc |-> stored.fetched_at_utc,
     event_time_text |-> stored.event_time_text,
     category |-> stored.category,
     actor |-> stored.actor,
     target |-> stored.target,
     summary |-> stored.summary]

\* what build_dashboard_analytics reads from the summary of a row: the summaries
\* of DashLines
DashSummaries ==
    {"We have declared WAR on Foo (2:3)!",
     "1 - Home (1:1) captured 40 acres of land from 2 - Foo (2:3).",
     "war with Foo (2:3) has ended.",
     "2 - Foo (2:3) attempted to invade 1 - Home (1:1).",
     "1 - Home (1:1) attempted an invasion of 2 - Foo (2:3), but was repelled.",
     "1 - Home (1:1) razed 7 acres of 2 - Foo (2:3).",
     "2 - Foo (2:3) captured 12 acres of land from 1 - Home (1:1).",
     "2 - Foo (2:3) has sent an aid shipment to 3 - Bar (2:3).",
     "A dragon has begun ravaging our lands!",
     "1 - Learned Ones (1:1) razed 7 acres of 2 - Foo (2:3).",
     "2 - Foo (2:3) invaded 1 - Home (1:1) and razed 9 acres of land."}
ClassifiedWarEvents == [summary \in DashSummaries |-> classify_war_event(summary)]
ParsedAids == [summary \in DashSummaries |-> parse_aid_summary(summary)]
ParsedAttacks == [summary \in DashSummaries |-> parse_attack_summary(summary)]
WarEventType(row) == ClassifiedWarEvents[Or(row.summary, "")]
AidSummary(row) == ParsedAids[Or(row.summary, "")]
AttackSummary(row) == ParsedAttacks[Or(row.summary, "")]
EventDayKey(row) == parse_event_day(Or(row.event_time_text, ""))

\* the texts of one aggregation pass that name a party with a coordinate, with
\* another coordinate and with none
PartyMentions == {None, "2 - Foo", "2 - Foo (2:3)", "Foo (4:5)", "3 - Bar (2:3)"}
\* normalize_party and extract_kingdom of the party texts of DashLines
PartyTexts ==
    {None, "1 - Home (1:1)", "2 - Foo (2:3)", "3 - Bar (2:3)", "1 - Learned Ones (1:1)"}
    \cup PartyMentions
ParsedParties ==
    [raw_name \in PartyTexts |->
        [name |-> normalize_party(raw_name), kingdom |-> extract_kingdom(raw_name)]]
Party(raw_name) == ParsedParties[raw_name]

\* counts[key] += 1 on a defaultdict(int)
Bump(counts, key) ==
    IF key \in DOMAIN counts THEN [counts EXCEPT ![key] = @ + 1] ELSE (key :> 1) @@ counts
\* category_counts[category] += 1, and category_counts.get(category, 0)
BumpCategory(counts, category) ==
    LET At(k) == IF k > 0 THEN [counts EXCEPT ![k].cnt = @ + 1]
                 ELSE Append(counts, [category |-> category, cnt |-> 1])
    IN  At(MaxOf({0} \cup {k \in 1..Len(counts) : counts[k].category = category}))
CategoryCount(counts, category) ==
    LET At(k) == IF k > 0 THEN counts[k].cnt ELSE 0
    IN  At(MaxOf({0} \cup {k \in 1..Len(counts) : counts[k].category = category}))
\* row[field] += n on the dict at position at of stats, if there is one
Add(stats, at, field, n) == IF at = 0 THEN stats ELSE [stats EXCEPT ![at][field] = @ + n]
\* the position in stats of the dict of key (under field), 0 if there is none
PositionOf(stats, field, key) ==
    LET First(K) == IF K = {} THEN 0 ELSE MinOf(K)
    IN  First({k \in 1..Len(stats) : stats[k][field] = key})

NewParty(name) ==
    [name |-> name, kingdom |-> None, gains |-> 0, losses |-> 0, net |-> 0,
     attacks_sent |-> 0, attacks_received |-> 0, successful_attacks |-> 0,
     failed_attacks |-> 0, aid_sent |-> 0, aid_received |-> 0, activity |-> 0]

\* ensure_party had it taken the kingdom of every mention that carries one
ensure_party_last_seen(stats_by_name, raw_name) ==
    LET Learn(stats, at, kingdom) ==
            [stats |-> IF Truthy(kingdom)
                       THEN [stats EXCEPT ![at].kingdom = kingdom]
                       ELSE stats,
             at |-> at]
        SetDefault(at, p) ==
            IF at > 0 THEN Learn(stats_by_name, at, p.kingdom)
            ELSE Learn(Append(stats_by_name, NewParty(p.name)), Len(stats_by_name) + 1,
                       p.kingdom)
        Ensure(p) ==
            IF ~Truthy(p.name) THEN [stats |-> stats_by_name, at |-> 0]
            ELSE SetDefault(PositionOf(stats_by_name, "name", p.name), p)
    IN  Ensure(Party(raw_name))
\* [stats, at]: the dict stats_by_name afterwards and the position of the row
\* returned, 0 for None
ensure_party(stats_by_name, raw_name) ==
    LET Learn(stats, at, kingdom) ==
            [stats |-> IF Truthy(kingdom) /\ ~Truthy(stats[at].kingdom)
                       THEN [stats EXCEPT ![at].kingdom = kingdom]
                       ELSE stats,
             at |-> at]
        SetDefault(at, p) ==
            IF at > 0 THEN Learn(stats_by_name, at, p.kingdom)
            ELSE Learn(Append(stats_by_name, NewParty(p.name)), Len(stats_by_name) + 1,
                       p.kingdom)
        Ensure(p) ==
            IF ~Truthy(p.name) THEN [stats |-> stats_by_name, at |-> 0]
            ELSE SetDefault(PositionOf(stats_by_name, "name", p.name), p)
    IN  Ensure(Party(raw_name))

KingdomAt(stats, at, raw_name) ==
    IF at > 0 THEN stats[at].kingdom ELSE extract_kingdom(raw_name)
NameAt(stats, at, raw_name) ==
    IF at > 0 THEN stats[at].name ELSE Or(normalize_party(raw_name), "")
Mention(mentions, kingdom) == IF Truthy(kingdom) THEN Bump(mentions, kingdom) ELSE mentions

\* the top of the loop body, on acc = [category_counts, war_events, provinces,
\* kingdom_mentions, hit_totals, attack_records]
RowCategory(row) == Lower(Or(row.category, "other"))
CountRow(acc, row, war_event_type, event_day_key) ==
    [acc EXCEPT
        !.category_counts = BumpCategory(@, RowCategory(row)),
        !.war_events =
            IF Truthy(war_event_type)
            THEN Append(@, [row_id |-> row.id,
                            event_type |-> war_event_type,
                            summary |-> Or(row.summary, ""),
                            event_time_text |-> Or(row.event_time_text, ""),
                            day_key |-> event_day_key])
            ELSE @]

\* the branch category == "aid"
AidRowStep(acc, row, aid) ==
    LET Raw(g, fallback) == IF aid # <<>> THEN aid[1][g] ELSE fallback
        Credit(stats, a_at, t_at) ==
            [acc EXCEPT
                !.provinces = Add(Add(stats, a_at, "aid_sent", 1), t_at, "aid_received", 1),
                !.kingdom_mentions =
                    Mention(Mention(@, IF a_at > 0 THEN stats[a_at].kingdom ELSE None),
                            IF t_at > 0 THEN stats[t_at].kingdom ELSE None),
                !.hit_totals.aid_shipments = IF aid # <<>> THEN @ + 1 ELSE @]
        OnTarget(a_at, t) == Credit(t.stats, a_at, t.at)
        OnActor(a) == OnTarget(a.at, ensure_party(a.stats, Raw("target_raw", row.target)))
    IN  OnActor(ensure_party(acc.provinces, Raw("actor_raw", row.actor)))

\* a version that credits every parsed attack as a success
CreditAnyOutcomeAsSuccess(acc, attack, a_at, t_at) ==
    IF attack.outcome \in {"failed", "success"}
    THEN [acc EXCEPT
            !.hit_totals.successful_hits = @ + 1,
            !.provinces = Add(@, a_at, "successful_attacks", 1)]
    ELSE acc
\* the branches on attack["outcome"]
CreditOutcome(acc, attack, a_at, t_at) ==
    IF attack.outcome = "failed"
    THEN [acc EXCEPT
            !.hit_totals.failed_hits = @ + 1,
            !.provinces = Add(@, a_at, "failed_attacks", 1)]
    ELSE IF attack.outcome = "success"
    THEN [acc EXCEPT
            !.hit_totals.successful_hits = @ + 1,
            !.hit_totals.acres_exchanged = IF attack.acres > 0 THEN @ + attack.acres ELSE @,
            !.provinces =
                Add(Add(Add(@, a_at, "successful_attacks", 1),
                        a_at, "gains", IF attack.acres > 0 THEN attack.acres ELSE 0),
                    t_at, "losses",
                    IF attack.target_loss_acres > 0 THEN attack.target_loss_acres ELSE 0)]
    ELSE acc

\* the branch category == "attack"
AttackRowStep(acc, row, attack, event_day_key) ==
    LET Record(stats, actor_raw, a_at, target_raw, t_at) ==
            [row_id |-> row.id,
             day_key |-> event_day_key,
             actor_kingdom |-> KingdomAt(stats, a_at, actor_raw),
             target_kingdom |-> KingdomAt(stats, t_at, target_raw),
             actor_name |-> NameAt(stats, a_at, actor_raw),
             target_name |-> NameAt(stats, t_at, target_raw),
             outcome |-> attack.outcome,
             attack_type |-> attack.attack_type,
             acres |-> attack.acres,
             target_loss_acres |-> attack.target_loss_acres]
        Counted(stats, a_at, t_at, rec) ==
            CreditOutcome(
                [acc EXCEPT
                    !.provinces = Add(Add(stats, a_at, "attacks_sent", 1),
                                      t_at, "attacks_received", 1),
                    !.kingdom_mentions = Mention(Mention(@, rec.actor_kingdom),
                                                 rec.target_kingdom),
                    !.attack_records = Append(@, rec)],
                attack, a_at, t_at)
        OnTarget(actor_raw, a_at, target_raw, t) ==
            Counted(t.stats, a_at, t.at, Record(t.stats, actor_raw, a_at, target_raw, t.at))
        OnActor(actor_raw, a, target_raw) ==
            OnTarget(actor_raw, a.at, target_raw, ensure_party(a.stats, target_raw))
        OnRaw(actor_raw, target_raw) ==
            OnActor(actor_raw, ensure_party(acc.provinces, actor_raw), target_raw)
    IN  OnRaw(Or(attack.actor_raw, row.actor), Or(attack.target_raw, row.target))

\* a < b as Python orders two texts of digits and ":"
CoordChars == "0123456789:"
CoordRank(c) == IF c = "" THEN 0 ELSE MinOf({n \in 1..Len(CoordChars) : Ch(CoordChars, n) = c})
CoordLess(a, b) ==
    \E i \in 1..Len(b) :
        /\ i - 1 <= Len(a)
        /\ SubSeq(a, 1, i - 1) = SubSeq(b, 1, i - 1)
        /\ CoordRank(Ch(a, i)) < CoordRank(Ch(b, i))

\* a home kingdom inferred from the mentions whatever the caller supplied
InferHomeOverSupplied(forced, mentions) ==
    IF DOMAIN mentions = {} THEN forced
    ELSE CHOOSE k \in DOMAIN mentions :
            \A j \in DOMAIN mentions \ {k} :
                \/ mentions[k] > mentions[j]
                \/ mentions[k] = mentions[j] /\ CoordLess(k, j)
\* a home kingdom that takes the last of the most mentioned kingdoms
InferHomeLastOfTies(forced, mentions) ==
    IF Truthy(forced) \/ DOMAIN mentions = {} THEN forced
    ELSE CHOOSE k \in DOMAIN mentions :
            \A j \in DOMAIN mentions \ {k} :
                \/ mentions[k] > mentions[j]
                \/ mentions[k] = mentions[j] /\ CoordLess(j, k)
\* home_kingdom: forced, else the first of sorted(kingdom_mentions.items(),
\* key=(-count, kingdom))
InferHome(forced, mentions) ==
    IF Truthy(forced) \/ DOMAIN mentions = {} THEN forced
    ELSE CHOOSE k \in DOMAIN mentions :
            \A j \in DOMAIN mentions \ {k} :
                \/ mentions[k] > mentions[j]
                \/ mentions[k] = mentions[j] /\ CoordLess(k, j)

day_in_range(day_key, start_key, end_key) ==
    IF day_key = NoKey \/ start_key = NoKey THEN FALSE
    ELSE IF KeyLess(day_key, start_key) THEN FALSE
    ELSE IF end_key # NoKey /\ KeyLess(end_key, day_key) THEN FALSE
    ELSE TRUE

is_raze_in_home_war(rec, home, ws) ==
    LET InWar(opponent_kingdom) ==
            \E k \in 1..Len(ws) :
                /\ ws[k].opponent_kingdom = opponent_kingdom
                /\ day_in_range(rec.day_key, ws[k].start_key, ws[k].end_key)
    IN  IF rec.outcome # "success" \/ rec.attack_type # "Raze" THEN FALSE
        ELSE IF ~Truthy(home) \/ rec.day_key = NoKey THEN FALSE
        ELSE IF /\ rec.actor_kingdom = home
                /\ Truthy(rec.target_kingdom)
                /\ rec.target_kingdom # home
        THEN InWar(rec.target_kingdom)
        ELSE IF /\ rec.target_kingdom = home
                /\ Truthy(rec.actor_kingdom)
                /\ rec.actor_kingdom # home
        THEN InWar(rec.actor_kingdom)
        ELSE FALSE

\* no correction: the losses as credited in the loop over rows
CreditedLosses(stats, records, n, home, ws) == stats
\* the loop "Province loss correction", over records[1..n]
RECURSIVE CorrectLosses(_, _, _, _, _)
CorrectLosses(stats, records, n, home, ws) ==
    IF n = 0 THEN stats
    ELSE LET Correct(before, rec, at) ==
                 IF ~is_raze_in_home_war(rec, home, ws) THEN before
                 ELSE IF ~Truthy(rec.target_name) \/ at = 0 THEN before
                 ELSE [before EXCEPT ![at].losses =
                          IF @ - rec.target_loss_acres > 0 THEN @ - rec.target_loss_acres
                          ELSE 0]
         IN  Correct(CorrectLosses(stats, records, n - 1, home, ws), records[n],
                     PositionOf(stats, "name", records[n].target_name))

NewOpponent(kingdom) ==
    [kingdom |-> kingdom, hits_for |-> 0, hits_against |-> 0, acres_for |-> 0,
     acres_against |-> 0, net |-> 0]
\* home_land_by_day[day_key][field] += n
AddLand(land, day_key, field, n) ==
    IF day_key \in DOMAIN land THEN [land EXCEPT ![day_key][field] = @ + n]
    ELSE (day_key :> [[gained |-> 0, lost |-> 0] EXCEPT ![field] = n]) @@ land

\* the body of the loop over attack_records under "if home_kingdom:", on
\* acc = [opponent_pressure, home_land_by_day]
PressureRecord(acc, rec, home, is_war_context) ==
    LET Opened(pressure, kingdom) ==
            IF PositionOf(pressure, "kingdom", kingdom) > 0 THEN pressure
            ELSE Append(pressure, NewOpponent(kingdom))
        Hit(before, kingdom, hits, acres, counts, land_field, land_acres) ==
            [opponent_pressure |->
                Add(Add(Opened(before.opponent_pressure, kingdom),
                        PositionOf(Opened(before.opponent_pressure, kingdom), "kingdom", kingdom),
                        hits, 1),
                    PositionOf(Opened(before.opponent_pressure, kingdom), "kingdom", kingdom),
                    acres, IF counts THEN land_acres[1] ELSE 0),
             home_land_by_day |->
                IF counts /\ rec.day_key # NoKey /\ land_acres[2] > 0
                THEN AddLand(before.home_land_by_day, rec.day_key, land_field, land_acres[2])
                ELSE before.home_land_by_day]
        For(before, impact_acres) ==
            IF /\ rec.actor_kingdom = home
               /\ Truthy(rec.target_kingdom)
               /\ rec.target_kingdom # home
            THEN Hit(before, rec.target_kingdom, "hits_for", "acres_for",
                     rec.outcome = "success" /\ impact_acres > 0, "gained",
                     <<impact_acres, rec.acres>>)
            ELSE before
        Against(before, impact_acres) ==
            IF /\ rec.target_kingdom = home
               /\ Truthy(rec.actor_kingdom)
               /\ rec.actor_kingdom # home
            THEN Hit(before, rec.actor_kingdom, "hits_against", "acres_against",
                     rec.outcome = "success" /\ impact_acres > 0, "lost",
                     <<impact_acres, impact_acres>>)
            ELSE before
        Body(impact_acres) == Against(For(acc, impact_acres), impact_acres)
    IN  Body(effective_land_impact(rec.acres, rec.target_loss_acres, rec.attack_type,
                                   is_war_context))

\* sorted(s, key=Key, reverse=True): stable, greatest key first
RECURSIVE SortedDescending(_, _, _)
SortedDescending(Key(_), s, n) ==
    IF n = 0 THEN <<>>
    ELSE LET Insert(sorted, x, ahead) ==
                 SubSeq(sorted, 1, ahead) \o <<x>> \o SubSeq(sorted, ahead + 1, Len(sorted))
             Place(sorted, x) ==
                 Insert(sorted, x,
                        Cardinality({k \in 1..Len(sorted) : ~KeyLess(Key(sorted[k]), Key(x))}))
         IN  Place(SortedDescending(Key, s, n - 1), s[n])
Take(s, n) == SubSeq(s, 1, IF Len(s) < n THEN Len(s) ELSE n)
Abs(x) == IF x < 0 THEN -x ELSE x
Total(s, field) ==
    LET RECURSIVE Sum(_)
        Sum(n) == IF n = 0 THEN 0 ELSE Sum(n - 1) + s[n][field]
    IN  Sum(Len(s))
format_event_day(key) == MonthNames[key[2]] \o " " \o Str(key[3]) \o " of YR" \o Str(key[1])

\* for day_key in sorted(home_land_by_day): the rows of land_swing_rows
RECURSIVE LandSwingRows(_, _)
LandSwingRows(land, days) ==
    IF days = {} THEN <<>>
    ELSE LET Row(day_key) ==
                 <<[day |-> format_event_day(day_key),
                    gained |-> land[day_key].gained,
                    lost |-> land[day_key].lost,
                    net |-> land[day_key].gained - land[day_key].lost]>>
                     \o LandSwingRows(land, days \ {day_key})
         IN  Row(CHOOSE d \in days : \A e \in days : KeyLeq(d, e))

\* everything from province_rows to the dict returned (success rates, which are
\* floats, are left out)
DashboardOf(all_rows, counts, stats, mentions, totals, home, ws, pressure, land) ==
    LET Provinces ==
            [k \in 1..Len(stats) |->
                [stats[k] EXCEPT
                    !.net = stats[k].gains - stats[k].losses,
                    !.activity = stats[k].attacks_sent + stats[k].attacks_received
                                     + stats[k].aid_sent + stats[k].aid_received]]
        Friendly(province_rows) ==
            IF Truthy(home) THEN SelectSeq(province_rows, LAMBDA row : row.kingdom = home)
            ELSE province_rows
        Opponents == [k \in 1..Len(pressure) |->
                         [pressure[k] EXCEPT !.net = pressure[k].acres_for
                                                         - pressure[k].acres_against]]
        Kpis(land_swing_rows, active_wars) ==
            [total_events |-> Len(all_rows),
             total_attacks |-> CategoryCount(counts, "attack"),
             successful_hits |-> totals.successful_hits,
             failed_hits |-> totals.failed_hits,
             acres_exchanged |-> totals.acres_exchanged,
             home_gained |-> Total(land_swing_rows, "gained"),
             home_lost |-> Total(land_swing_rows, "lost"),
             home_net |-> Total(land_swing_rows, "gained") - Total(land_swing_rows, "lost"),
             aid_shipments |-> totals.aid_shipments,
             dragons |-> CategoryCount(counts, "dragon"),
             diplomacy |-> CategoryCount(counts, "diplomacy"),
             tracked_provinces |-> Len(stats),
             tracked_kingdoms |-> Cardinality(DOMAIN mentions),
             active_wars |-> active_wars,
             completed_wars |-> Len(ws) - active_wars,
             war_victories |-> Len(SelectSeq(ws, LAMBDA row : row.result = "victory")),
             war_failures |-> Len(SelectSeq(ws, LAMBDA row : row.result = "failed"))]
        Result(province_rows, friendly_rows, opponent_rows, land_swing_rows) ==
            [home_kingdom |-> home,
             category_totals |->
                SortedDescending(LAMBDA row : <<row.cnt>>, counts, Len(counts)),
             war_rows |-> ws,
             province_rows |-> province_rows,
             friendly_leaderboard |->
                Take(SortedDescending(LAMBDA row : <<row.net, row.gains, row.activity>>,
                                      friendly_rows, Len(friendly_rows)),
                     LeaderboardRows),
             active_rows |->
                Take(SortedDescending(LAMBDA row : <<row.activity, row.attacks_sent,
                                                     row.aid_sent>>,
                                      province_rows, Len(province_rows)),
                     LeaderboardRows),
             target_rows |->
                Take(SortedDescending(LAMBDA row : <<row.attacks_received, row.losses>>,
                                      province_rows, Len(province_rows)),
                     LeaderboardRows),
             opponent_rows |->
                Take(SortedDescending(LAMBDA row : <<row.hits_for + row.hits_against,
                                                     Abs(row.net)>>,
                                      opponent_rows, Len(opponent_rows)),
                     OpponentRows),
             land_swing_rows |-> land_swing_rows,
             kpis |-> Kpis(land_swing_rows,
                           Len(SelectSeq(ws, LAMBDA row : row.status = "active")))]
        WithProvinces(province_rows) ==
            Result(province_rows, Friendly(province_rows), Opponents,
                     LandSwingRows(land, DOMAIN land))
    IN  WithProvinces(Provinces)

\* one iteration of the loop over rows
RowStep(acc, row) ==
    LET Branch(counted, category, event_day_key) ==
            IF category = "aid" THEN AidRowStep(counted, row, AidSummary(row))
            ELSE IF category = "attack"
            THEN AttackRowStep(counted, row, AttackSummary(row), event_day_key)
            ELSE counted
        Step(event_day_key) ==
            Branch(CountRow(acc, row, WarEventType(row), event_day_key),
                   RowCategory(row), event_day_key)
    IN  Step(EventDayKey(row))

NoRows ==
    [category_counts |-> <<>>, war_events |-> <<>>, provinces |-> <<>>,
     kingdom_mentions |-> <<>>, hit_totals |-> NoHits, attack_records |-> <<>>]
RECURSIVE RunRows(_, _, _)
RunRows(acc, all_rows, n) ==
    IF n = 0 THEN acc ELSE RowStep(RunRows(acc, all_rows, n - 1), all_rows[n])
RECURSIVE RunPressure(_, _, _, _, _)
RunPressure(acc, records, n, home, ws) ==
    IF n = 0 \/ ~Truthy(home) THEN acc
    ELSE PressureRecord(RunPressure(acc, records, n - 1, home, ws), records[n], home,
                        is_raze_in_home_war(records[n], home, ws))

\* build_dashboard_analytics(rows, forced_home_kingdom) as one call
build_dashboard_analytics(all_rows, forced) ==
    LET Finish(acc, home, ws, after) ==
            DashboardOf(all_rows, acc.category_counts,
                        CorrectLosses(acc.provinces, acc.attack_records,
                                      Len(acc.attack_records), home, ws),
                        acc.kingdom_mentions, acc.hit_totals, home, ws,
                        after.opponent_pressure, after.home_land_by_day)
        WithWars(acc, home, ws) ==
            Finish(acc, home, ws,
                   RunPressure([opponent_pressure |-> <<>>, home_land_by_day |-> <<>>],
                               acc.attack_records, Len(acc.attack_records), home, ws))
        WithHome(acc, home) ==
            WithWars(acc, home, build_war_rows(acc.war_events, acc.attack_records, home))
        AfterRows(acc) == WithHome(acc, InferHome(forced, acc.kingdom_mentions))
    IN  AfterRows(RunRows(NoRows, all_rows, Len(all_rows)))

(***************************************************************************)
(* build_dashboard_analytics as a state machine: one step per iteration of *)
(* the loop over rows and of the loop over attack_records, one step for    *)
(* each block between them.                                                *)
(***************************************************************************)
\* inputs: up to MaxRows stored events with distinct lines, ids in list order
InitDash ==
    /\ NoPureCall /\ NoWarRun /\ NoIngest /\ NoService
    /\ \E n \in 0..MaxRows : \E f \in [1..n -> DashLines] :
          /\ \A i, j \in 1..n : i # j => f[i] # f[j]
          /\ rows = [i \in 1..n |-> EventRow(i, StoredLines[f[i]])]
    /\ forced_home_kingdom \in {None, "2:3"}
    /\ row_i = 1
    /\ category_counts = <<>>
    /\ provinces = <<>>
    /\ kingdom_mentions = <<>>
    /\ hit_totals = NoHits
    /\ war_rows = <<>>
    /\ rec_i = 0
    /\ opponent_pressure = <<>>
    /\ home_land_by_day = <<>>
    /\ dashboard = None
    /\ dpc = "rows"

Acc ==
    [category_counts |-> category_counts, war_events |-> war_events,
     provinces |-> provinces, kingdom_mentions |-> kingdom_mentions,
     hit_totals |-> hit_totals, attack_records |-> attack_records]
InRows == dpc = "rows" /\ row_i <= Len(rows)
Row == rows[row_i]
warRun == <<ordered_war_events, ev_i, wars, open_wars, war_seq, wpc>>
RowBecomes(acc) ==
    /\ category_counts' = acc.category_counts
    /\ war_events' = acc.war_events
    /\ provinces' = acc.provinces
    /\ kingdom_mentions' = acc.kingdom_mentions
    /\ hit_totals' = acc.hit_totals
    /\ attack_records' = acc.attack_records
    /\ row_i' = row_i + 1
    /\ UNCHANGED <<callVars, ingestVars, serviceVars, warRun, home_kingdom, rows, forced_home_kingdom,
                   war_rows, rec_i, opponent_pressure, home_land_by_day, dashboard, dpc>>

\* the top of the loop body on the row at hand
Counted == CountRow(Acc, Row, WarEventType(Row), EventDayKey(Row))

AidRow ==
    /\ InRows
    /\ RowCategory(Row) = "aid"
    /\ RowBecomes(AidRowStep(Counted, Row, AidSummary(Row)))
AttackRow ==
    LET Step(event_day_key) ==
            RowBecomes(AttackRowStep(CountRow(Acc, Row, WarEventType(Row), event_day_key),
                                     Row, AttackSummary(Row), event_day_key))
    IN  /\ InRows
        /\ RowCategory(Row) = "attack"
        /\ Step(EventDayKey(Row))
OtherRow ==
    /\ InRows
    /\ RowCategory(Row) \notin {"aid", "attack"}
    /\ RowBecomes(Counted)

\* home_kingdom and the call of build_war_rows
BuildWars ==
    LET Built(home) ==
            /\ home_kingdom' = home
            /\ war_rows' = build_war_rows(war_events, attack_records, home)
    IN  /\ dpc = "rows"
        /\ row_i > Len(rows)
        /\ Built(InferHome(forced_home_kingdom, kingdom_mentions))
        /\ dpc' = "correct"
        /\ UNCHANGED <<callVars, ingestVars, serviceVars, warRun, war_events, attack_records, rows,
                       forced_home_kingdom, row_i, category_counts, provinces,
                       kingdom_mentions, hit_totals, rec_i, opponent_pressure,
                       home_land_by_day, dashboard>>

CorrectProvinceLosses ==
    /\ dpc = "correct"
    /\ provinces' = CorrectLosses(provinces, attack_records, Len(attack_records),
                                  home_kingdom, war_rows)
    /\ rec_i' = 1
    /\ dpc' = "pressure"
    /\ UNCHANGED <<callVars, ingestVars, serviceVars, warVars, rows, forced_home_kingdom, row_i,
                   category_counts, kingdom_mentions, hit_totals, war_rows,
                   opponent_pressure, home_land_by_day, dashboard>>

InPressure == dpc = "pressure" /\ Truthy(home_kingdom) /\ rec_i <= Len(attack_records)
Rec == attack_records[rec_i]
PressureStep ==
    LET PressureBecomes(acc) ==
            /\ opponent_pressure' = acc.opponent_pressure
            /\ home_land_by_day' = acc.home_land_by_day
    IN  /\ InPressure
        /\ PressureBecomes(PressureRecord([opponent_pressure |-> opponent_pressure,
                                           home_land_by_day |-> home_land_by_day],
                                          Rec, home_kingdom,
                                          is_raze_in_home_war(Rec, home_kingdom, war_rows)))
        /\ rec_i' = rec_i + 1
        /\ UNCHANGED <<callVars, ingestVars, serviceVars, warVars, rows, forced_home_kingdom, row_i,
                       category_counts, provinces, kingdom_mentions, hit_totals, war_rows,
                       dashboard, dpc>>

ReturnDashboard ==
    /\ dpc = "pressure"
    /\ ~InPressure
    /\ dashboard' = DashboardOf(rows, category_counts, provinces, kingdom_mentions, hit_totals,
                                home_kingdom, war_rows, opponent_pressure, home_land_by_day)
    /\ dpc' = "done"
    /\ UNCHANGED <<callVars, ingestVars, serviceVars, warVars, rows, forced_home_kingdom, row_i,
                   category_counts, provinces, kingdom_mentions, hit_totals, war_rows, rec_i,
                   opponent_pressure, home_land_by_day>>

NextDash ==
    \/ AidRow
    \/ AttackRow
    \/ OtherRow
    \/ BuildWars
    \/ CorrectProvinceLosses
    \/ PressureStep
    \/ ReturnDashboard

SpecDash == InitDash /\ [][NextDash]_vars

\* inputs: the same, with the lines of LandSwingLines, for the home kingdom 1:1
InitLandSwing ==
    /\ NoPureCall /\ NoWarRun /\ NoIngest /\ NoService
    /\ \E n \in 0..MaxRows : \E f \in [1..n -> DashLines \cup LandSwingLines] :
          /\ \A i, j \in 1..n : i # j => f[i] # f[j]
          /\ rows = [i \in 1..n |-> EventRow(i, StoredLines[f[i]])]
    /\ forced_home_kingdom \in {None, "1:1"}
    /\ row_i = 1
    /\ category_counts = <<>>
    /\ provinces = <<>>
    /\ kingdom_mentions = <<>>
    /\ hit_totals = NoHits
    /\ war_rows = <<>>
    /\ rec_i = 0
    /\ opponent_pressure = <<>>
    /\ home_land_by_day = <<>>
    /\ dashboard = None
    /\ dpc = "rows"
SpecLandSwing == InitLandSwing /\ [][NextDash]_vars

\* the steps of the state machine compose to the function
DashboardIsTheCall ==
    dpc = "done" => dashboard = build_dashboard_analytics(rows, forced_home_kingdom)

(***************************************************************************)
(* Dashboard: the war of the end-to-end scenario, failed attacks.          *)
(***************************************************************************)
\* the stored events of the scenario: a declaration on day 1, a capture of 40
\* acres on day 3, the end of the war on day 10
ScenarioLines ==
    {"January 1 of YR1 We have declared WAR on Foo (2:3)!",
     "January 3 of YR1 1 - Home (1:1) captured 40 acres of land from 2 - Foo (2:3).",
     "January 10 of YR1 war with Foo (2:3) has ended."}
ScenarioRows ==
    /\ forced_home_kingdom = None
    /\ Len(rows) = 3
    /\ {[rows[i] EXCEPT !.id = 0] : i \in 1..Len(rows)}
           = {EventRow(0, StoredLines[line]) : line \in ScenarioLines}

\* C4: for the three events of the scenario, in any order of arrival and with the
\* home kingdom inferred, build_dashboard_analytics infers home 1:1 and returns
\* exactly one war: closed, result "ended", from day 1 to day 10, with one hit
\* and 40 acres for the home kingdom and nothing against it.
ScenarioYieldsOneEndedWar ==
    (dpc = "done" /\ ScenarioRows) =>
        /\ dashboard.home_kingdom = "1:1"
        /\ Len(dashboard.war_rows) = 1
        /\ dashboard.war_rows[1].opponent_kingdom = "2:3"
        /\ dashboard.war_rows[1].status = "closed"
        /\ dashboard.war_rows[1].result = "ended"
        /\ dashboard.war_rows[1].start_key = <<1, 1, 1>>
        /\ dashboard.war_rows[1].end_key = <<1, 1, 10>>
        /\ dashboard.war_rows[1].hits_for = 1
        /\ dashboard.war_rows[1].acres_for = 40
        /\ dashboard.war_rows[1].hits_against = 0
        /\ dashboard.war_rows[1].acres_against = 0
\* the dashboard of the scenario has been returned, the capture attributed
ScenarioDashboardReturned ==
    /\ dpc = "done"
    /\ ScenarioRows
    /\ Len(attack_records) = 1
    /\ attack_records[1].acres = 40
    /\ dashboard.war_rows # <<>>

Failed(rec) == rec.outcome = "failed"
SuccessfulAttacks == SelectSeq(attack_records, LAMBDA rec : ~Failed(rec))
WithoutHits(ws) == [k \in 1..Len(ws) |-> [ws[k] EXCEPT !.hits_for = 0, !.hits_against = 0]]
\* the row at hand is an attack that parse_attack_summary reads as failed
FailedAttackRow ==
    /\ InRows
    /\ RowCategory(Row) = "attack"
    /\ Failed(AttackSummary(Row))
    /\ row_i' = row_i + 1
\* the record at hand in the loop over attack_records is a failed attack
FailedAttackPressure ==
    /\ InPressure
    /\ Failed(Rec)
    /\ rec_i' = rec_i + 1
\* acreage of the dicts of before is kept in after, a new dict has none
SameAcreage(before, after, fields) ==
    /\ Len(before) <= Len(after)
    /\ \A k \in 1..Len(after) : \A field \in fields :
          after[k][field] = IF k <= Len(before) THEN before[k][field] ELSE 0

\* C6: a failed attack is recorded with acres 0 and target_loss_acres 0; its row
\* leaves party gains and losses and acres_exchanged as they were and adds one to
\* failed_hits, to the attacker's failed_attacks and to the attack counters only;
\* the war rows, the loss correction, the opponent pressure and the land by day
\* have the acreage they would have without the failed attacks.
FailedAttackAddsNoAcreage ==
    /\ [](\A k \in 1..Len(attack_records) :
             Failed(attack_records[k]) =>
                 attack_records[k].acres = 0 /\ attack_records[k].target_loss_acres = 0)
    /\ [][FailedAttackRow =>
             /\ SameAcreage(provinces, provinces', {"gains", "losses", "successful_attacks"})
             /\ hit_totals' = [hit_totals EXCEPT !.failed_hits = @ + 1]
             /\ Total(provinces', "failed_attacks") <= Total(provinces, "failed_attacks") + 1
             /\ Len(attack_records') = Len(attack_records) + 1
             /\ Failed(attack_records'[Len(attack_records')])]_vars
    /\ [](dpc \in {"correct", "pressure", "done"} =>
             WithoutHits(war_rows)
                 = WithoutHits(build_war_rows(war_events, SuccessfulAttacks, home_kingdom)))
    /\ [][dpc = "correct" =>
             provinces' = CorrectLosses(provinces, SuccessfulAttacks, Len(SuccessfulAttacks),
                                        home_kingdom, war_rows)]_vars
    /\ [][FailedAttackPressure =>
             /\ SameAcreage(opponent_pressure, opponent_pressure',
                            {"acres_for", "acres_against"})
             /\ home_land_by_day' = home_land_by_day]_vars
\* a returned dashboard in which a failed attack of the home kingdom on its war
\* opponent, inside the war, counted as a hit of the war and of the opponent
FailedHitInsideWar ==
    /\ dpc = "done"
    /\ \E k \in 1..Len(attack_records) :
          /\ Failed(attack_records[k])
          /\ attack_records[k].actor_kingdom = home_kingdom
          /\ \E w \in 1..Len(war_rows) :
                /\ war_rows[w].opponent_kingdom = attack_records[k].target_kingdom
                /\ day_in_war(attack_records[k].day_key, war_rows[w])
                /\ war_rows[w].hits_for = 1
                /\ war_rows[w].acres_for = 0
    /\ dashboard.kpis.failed_hits = 1
    /\ dashboard.kpis.acres_exchanged = 0
    /\ dashboard.land_swing_rows = <<>>

\* the actor and target texts of a row of category aid or attack, as the loop
\* takes them from the summary or else from the row
RawParties(row) ==
    IF RowCategory(row) = "aid"
    THEN IF AidSummary(row) # <<>>
         THEN <<AidSummary(row)[1].actor_raw, AidSummary(row)[1].target_raw>>
         ELSE <<row.actor, row.target>>
    ELSE IF RowCategory(row) = "attack"
    THEN <<Or(AttackSummary(row).actor_raw, row.actor), Or(AttackSummary(row).target_raw, row.target)>>
    ELSE <<>>
\* the mentions of a kingdom: the actor and target texts that carry its coordinate
MentionsOf(kingdom) ==
    Cardinality({m \in (1..Len(rows)) \X {1, 2} :
                    /\ RawParties(rows[m[1]]) # <<>>
                    /\ Party(RawParties(rows[m[1]])[m[2]]).kingdom = kingdom})
MentionedKingdoms ==
    {kd \in {Party(raw_name).kingdom : raw_name \in PartyTexts} : Truthy(kd) /\ MentionsOf(kd) > 0}
HomeChosen == dpc \in {"correct", "pressure", "done"}

\* C15: the home kingdom of build_dashboard_analytics is the one supplied, when one
\* is supplied; else it is, of the coordinates that the actor and target texts of
\* the aid and attack rows carry, the one with the most mentions, and of several
\* with the most mentions the smallest as a string; with no mention at all it
\* stays null.  (Every mention of a party in the rows carries its coordinate.)
HomeIsMostMentioned ==
    HomeChosen =>
        /\ Truthy(forced_home_kingdom) => home_kingdom = forced_home_kingdom
        /\ (~Truthy(forced_home_kingdom) /\ MentionedKingdoms = {}) =>
               home_kingdom = forced_home_kingdom
        /\ (~Truthy(forced_home_kingdom) /\ MentionedKingdoms # {}) =>
               /\ home_kingdom \in MentionedKingdoms
               /\ \A other \in MentionedKingdoms \ {home_kingdom} :
                      \/ MentionsOf(home_kingdom) > MentionsOf(other)
                      \/ /\ MentionsOf(home_kingdom) = MentionsOf(other)
                         /\ CoordLess(home_kingdom, other)
        /\ dpc = "done" => dashboard.home_kingdom = home_kingdom
\* no home supplied, and the kingdom mentioned most is not the smallest coordinate
MostMentionedBeatsSmallest ==
    /\ dpc = "done"
    /\ ~Truthy(forced_home_kingdom)
    /\ dashboard.home_kingdom = "2:3"
    /\ MentionsOf("1:1") > 0
    /\ MentionsOf("2:3") > MentionsOf("1:1")

(***************************************************************************)
(* Parties: the calls of ensure_party of one aggregation pass, on the dict *)
(* provinces.  call holds the texts passed so far and the row returned.    *)
(***************************************************************************)
MaxMentions == 3

InitParty ==
    /\ NoWarRun /\ NoDashRun /\ NoIngest /\ NoService
    /\ call = [fn |-> "ensure_party", mentions |-> <<>>, at |-> 0]
EnsureParty ==
    /\ call.fn = "ensure_party"
    /\ Len(call.mentions) < MaxMentions
    /\ \E raw_name \in PartyMentions :
          LET Ensured(row) ==
                  /\ provinces' = row.stats
                  /\ call' = [call EXCEPT !.mentions = Append(@, raw_name), !.at = row.at]
          IN  Ensured(ensure_party(provinces, raw_name))
    /\ UNCHANGED <<warVars, ingestVars, serviceVars, rows, forced_home_kingdom, row_i,
                   category_counts, kingdom_mentions, hit_totals, war_rows, rec_i,
                   opponent_pressure, home_land_by_day, dashboard, dpc>>
SpecParty == InitParty /\ [][EnsureParty]_vars

\* the coordinate of the first text passed that names the party and carries one
FirstSeenKingdom(name) ==
    LET First(K) == IF K = {} THEN None ELSE Party(call.mentions[MinOf(K)]).kingdom
    IN  First({k \in 1..Len(call.mentions) :
                  /\ Party(call.mentions[k]).name = name
                  /\ Truthy(Party(call.mentions[k]).kingdom)})

\* C16: within a pass the kingdom of a party is the coordinate of the first
\* mention of its name that carries one, and null while no mention has carried
\* one; once set it is changed by no later mention, be it one with another
\* coordinate or one with none.
PartyKingdomFirstSeen ==
    /\ [](\A k \in 1..Len(provinces) :
             provinces[k].kingdom = FirstSeenKingdom(provinces[k].name))
    /\ [][\A k \in 1..Len(provinces) :
              /\ provinces'[k].name = provinces[k].name
              /\ Truthy(provinces[k].kingdom) => provinces'[k].kingdom = provinces[k].kingdom]_vars
\* a party holds the coordinate of its first annotated mention after a mention
\* with another coordinate and a mention with none
LaterCoordinateIgnored ==
    \E k \in 1..Len(provinces) : \E i, j \in 1..Len(call.mentions) :
        /\ provinces[k].kingdom = "2:3"
        /\ call.mentions[i] = "2 - Foo (2:3)"
        /\ i < j
        /\ call.mentions[j] = "Foo (4:5)"
        /\ j < Len(call.mentions)
        /\ call.mentions[Len(call.mentions)] = "2 - Foo"
        /\ call.at = k

(***************************************************************************)
(* Ingest: store_fetch (collector.py) and parse_and_store_news (parser.py) *)
(* on the tables fetch_log and kd_news_events.  A page is the sequence of  *)
(* the texts of its nodes and lines; url and http_status, which the parser *)
(* never reads, are left out of fetch_log.                                 *)
(***************************************************************************)
MaxClock == 3
MaxNewsId == 8

\* the page keys of the collector, in ascending order
PageKeys == <<"intel_ops", "kingdom_details", "kingdom_news">>
NewsLikeKeys == {"kingdom_news", "intel_ops"}
\* a news page that shows a declaration twice, an ops page with a dated and an
\* undated operation, a later news page that repeats the dated operation
Pages ==
    {<<"Kingdom News",
       "January 1 of YR1   We have declared WAR on Foo (2:3)! ",
       "January 1 of YR1 We have declared WAR on Foo (2:3)!">>,
     <<"Our wizards cast a spell on 2 - Foo (2:3).",
       "January 3 of YR1 Our thieves failed to rob 2 - Foo (2:3).",
       "Ops">>,
     <<"January 3 of YR1 Our thieves failed to rob 2 - Foo (2:3).",
       "January 10 of YR1 war with Foo (2:3) has ended.">>}

\* INSERT OR IGNORE INTO fetch_log, under the unique index on (page_key, sha256)
store_fetch(log, at, page_key, html) ==
    IF \E k \in 1..Len(log) :
           log[k].page_key = page_key /\ log[k].sha256 = sha256_text(html)
    THEN log
    ELSE Append(log, [id |-> Len(log) + 1,
                      fetched_at_utc |-> at,
                      page_key |-> page_key,
                      sha256 |-> sha256_text(html),
                      raw_html |-> html])

fetch_html_rows(log, page_key) == SelectSeq(log, LAMBDA fetch_row : fetch_row.page_key = page_key)
list_page_keys(log, explicit_page_key) ==
    IF Truthy(explicit_page_key) THEN <<explicit_page_key>>
    ELSE SelectSeq(PageKeys, LAMBDA key : \E k \in 1..Len(log) : log[k].page_key = key)

\* the lines parse_and_store_news extracts from a fetch of key, and their tuples
ExtractedLines ==
    [key \in NewsLikeKeys, html \in Pages |->
        IF key = "intel_ops" THEN extract_intel_ops_lines(html) ELSE extract_news_lines(html)]
IngestLines ==
    UNION {{ExtractedLines[key, html][k] : k \in 1..Len(ExtractedLines[key, html])} :
               key \in NewsLikeKeys, html \in Pages}
ParsedLines == [line \in IngestLines |-> NewsRow(0, line)]

\* for line in lines: rows_to_upsert afterwards (unique_in_run holds its digests)
RECURSIVE AddLines(_, _, _)
AddLines(rows_to_upsert, fetched_at_utc, lines) ==
    IF lines = <<>> THEN rows_to_upsert
    ELSE AddLines(IF PositionOf(rows_to_upsert, "sha256", sha256_text(Head(lines))) > 0
                  THEN rows_to_upsert
                  ELSE Append(rows_to_upsert,
                              [ParsedLines[Head(lines)] EXCEPT
                                  !.fetched_at_utc = fetched_at_utc]),
                  fetched_at_utc, Tail(lines))
\* for fetch_row in fetch_rows
RECURSIVE AddFetches(_, _, _)
AddFetches(rows_to_upsert, key, fetch_rows) ==
    IF fetch_rows = <<>> THEN rows_to_upsert
    ELSE AddFetches(AddLines(rows_to_upsert, Head(fetch_rows).fetched_at_utc,
                             ExtractedLines[key, Head(fetch_rows).raw_html]),
                    key, Tail(fetch_rows))
\* for key in news_like_keys
RECURSIVE RowsToUpsert(_, _, _)
RowsToUpsert(rows_to_upsert, log, news_like_keys) ==
    IF news_like_keys = <<>> THEN rows_to_upsert
    ELSE RowsToUpsert(AddFetches(rows_to_upsert, Head(news_like_keys),
                                 fetch_html_rows(log, Head(news_like_keys))),
                      log, Tail(news_like_keys))

WithId(row, id) == [k \in DOMAIN row \cup {"id"} |-> IF k = "id" THEN id ELSE row[k]]
\* INSERT OR REPLACE: the row in conflict is deleted, the new one gets a new id
ReplaceNews(db, row) ==
    [kd_news_events |->
        Append(SelectSeq(db.kd_news_events, LAMBDA stored : stored.sha256 # row.sha256),
               WithId(row, db.news_seq + 1)),
     news_seq |-> db.news_seq + 1]
\* UPSERT_NEWS_SQL on db = [kd_news_events, news_seq]: ON CONFLICT(sha256) DO UPDATE
\* of every column but id and sha256; SQLite draws an id from the AUTOINCREMENT
\* counter before it meets the conflict, and the counter keeps it
UpsertNews(db, row) ==
    LET At(k) ==
            IF k > 0
            THEN [kd_news_events |->
                      [db.kd_news_events EXCEPT ![k] = WithId(row, db.kd_news_events[k].id)],
                  news_seq |-> db.news_seq + 1]
            ELSE [kd_news_events |-> Append(db.kd_news_events, WithId(row, db.news_seq + 1)),
                  news_seq |-> db.news_seq + 1]
    IN  At(PositionOf(db.kd_news_events, "sha256", row.sha256))
RECURSIVE executemany(_, _)
executemany(db, rows_list) ==
    IF rows_list = <<>> THEN db
    ELSE executemany(UpsertNews(db, Head(rows_list)), Tail(rows_list))

\* parse_and_store_news(page_key) on the table kd_news_events; the kingdom
\* snapshots and intel site operations it stores afterwards are other tables
parse_and_store_news(log, db, page_key) ==
    LET Stored(page_keys) ==
            IF page_keys = <<>> THEN db
            ELSE executemany(db, RowsToUpsert(<<>>, log,
                                              SelectSeq(page_keys,
                                                        LAMBDA key : key \in NewsLikeKeys)))
    IN  Stored(list_page_keys(log, page_key))

InitIngest == NoPureCall /\ NoWarRun /\ NoDashRun /\ NoIngest /\ NoService

\* the collector stores a fetched page, at one tick of the clock per fetch
StoreFetch ==
    /\ now < MaxClock
    /\ \E k \in 1..Len(PageKeys) : \E html \in Pages :
          fetch_log' = store_fetch(fetch_log, now, PageKeys[k], html)
    /\ now' = now + 1
    /\ UNCHANGED <<callVars, warVars, dashVars, serviceVars, kd_news_events, news_seq>>
\* the parser runs as ingest_loop and the command line call it: no page_key
ParseAndStoreNews ==
    LET NewsBecomes(db) ==
            /\ db.news_seq <= MaxNewsId
            /\ kd_news_events' = db.kd_news_events
            /\ news_seq' = db.news_seq
    IN  /\ NewsBecomes(parse_and_store_news(fetch_log,
                                            [kd_news_events |-> kd_news_events,
                                             news_seq |-> news_seq],
                                            None))
        /\ UNCHANGED <<callVars, warVars, dashVars, serviceVars, fetch_log, now>>

NextIngest ==
    \/ StoreFetch
    \/ ParseAndStoreNews

SpecIngest == InitIngest /\ [][NextIngest]_vars

\* the tuples a run of the parser would upsert from the fetch log as it is
RowsOfTheLog == RowsToUpsert(<<>>, fetch_log, <<"intel_ops", "kingdom_news">>)
\* every line of the fetch log is stored, with the values the parser gives it
AlreadyIngested ==
    \A k \in 1..Len(RowsOfTheLog) :
        \E j \in 1..Len(kd_news_events) :
            kd_news_events[j] = WithId(RowsOfTheLog[k], kd_news_events[j].id)
\* a run of the parser: the one step that leaves fetch_log and the clock alone
ParserRuns == fetch_log' = fetch_log /\ now' = now

\* a run of the parser leaves every line of the fetch log stored
ParserStoresTheLog == [][ParserRuns => AlreadyIngested']_vars

MaxThreads == 2
MaxIterations == 2

\* the callers of start_ingest_thread: maybe_start_ingest_for_wsgi and __main__
Starters == {"wsgi", "main"}
\* what load_config and run_ingest_cycle raise, as str(exc)
ConfigFailures == {"[Errno 2] No such file or directory: 'config.json'"}
CycleFailures == {"No session cookies configured. Set UTOPIA_SESSIONID (or cookies in config.json).",
                  "database is locked"}
\* the page the origin site serves to the collector, stored as kingdom_news
OriginPage == CHOOSE page \in Pages : page[1] = "Kingdom News"

\* datetime.now(timezone.utc).isoformat(timespec="seconds") at second t of the epoch
utc_now_iso(t) == "1970-01-01T00:00:0" \o ToString(t) \o "+00:00"
\* INGEST_STATE.update(kwargs)
update_ingest_state(state, kwargs) == kwargs @@ state
snapshot_ingest_state(state) == state
cache_token(state) ==
    IF Truthy(snapshot_ingest_state(state).last_success_utc)
    THEN Strip(snapshot_ingest_state(state).last_success_utc)
    ELSE ""

is_alive(t) == t # 0 /\ threads[t].pc # "dead"
AliveThreads == {t \in 1..Len(threads) : is_alive(t)}
ThreadAt(t, pc) == t \in 1..Len(threads) /\ threads[t].pc = pc
ThreadGoes(t, pc) == threads' = [threads EXCEPT ![t].pc = pc]
StarterAt(s, pc) == s \in DOMAIN starters /\ starters[s].pc = pc
\* the caller returns result and releases INGEST_THREAD_LOCK
StarterReturns(s, result) ==
    /\ starters' = [starters EXCEPT ![s] = [pc |-> "idle", result |-> <<result>>]]
    /\ INGEST_THREAD_LOCK' = "free"

\* start_ingest_thread had it not taken INGEST_THREAD_LOCK
LockIgnored == TRUE
\* with INGEST_THREAD_LOCK: the lock is taken when nobody holds it
LockIsFree == INGEST_THREAD_LOCK = "free"
EnterStart(s) ==
    /\ StarterAt(s, "idle")
    /\ LockIsFree
    /\ INGEST_THREAD_LOCK' = s
    /\ starters' = [starters EXCEPT ![s] = [pc |-> "locked", result |-> <<>>]]
    /\ UNCHANGED <<callVars, warVars, dashVars, ingestVars, cacheVars,
                   INGEST_STATE, STOP_EVENT, INGEST_THREAD, threads>>
\* if INGEST_THREAD and INGEST_THREAD.is_alive(): return False
StartRefused(s) ==
    /\ StarterAt(s, "locked")
    /\ is_alive(INGEST_THREAD)
    /\ StarterReturns(s, FALSE)
    /\ UNCHANGED <<callVars, warVars, dashVars, ingestVars, cacheVars,
                   INGEST_STATE, STOP_EVENT, INGEST_THREAD, threads>>
StartAllowed(s) ==
    /\ StarterAt(s, "locked")
    /\ ~is_alive(INGEST_THREAD)
    /\ starters' = [starters EXCEPT ![s].pc = "start"]
    /\ UNCHANGED <<callVars, warVars, dashVars, ingestVars, cacheVars,
                   INGEST_STATE, STOP_EVENT, INGEST_THREAD, INGEST_THREAD_LOCK, threads>>
\* init_db() creates the tables that are missing; STOP_EVENT.clear(); the thread
\* is created and started; return True
LaunchThread(s) ==
    /\ StarterAt(s, "start")
    /\ Len(threads) < MaxThreads
    /\ STOP_EVENT' = FALSE
    /\ threads' = Append(threads, [pc |-> "load", started |-> 0, parsed_events |-> 0, exc |-> None])
    /\ INGEST_THREAD' = Len(threads) + 1
    /\ StarterReturns(s, TRUE)
    /\ UNCHANGED <<callVars, warVars, dashVars, ingestVars, cacheVars, INGEST_STATE>>

\* ingest_loop: cfg = load_config(config_path), and what follows or the except
ConfigLoaded(t) ==
    /\ ThreadAt(t, "load")
    /\ INGEST_STATE' = update_ingest_state(INGEST_STATE, [enabled |-> TRUE, last_error |-> None])
    /\ ThreadGoes(t, "while")
    /\ UNCHANGED <<callVars, warVars, dashVars, ingestVars, cacheVars,
                   STOP_EVENT, INGEST_THREAD, INGEST_THREAD_LOCK, starters>>
ConfigError(t) ==
    /\ ThreadAt(t, "load")
    /\ \E exc \in ConfigFailures :
          INGEST_STATE' = update_ingest_state(INGEST_STATE,
                                              [enabled |-> TRUE, running |-> FALSE,
                                               last_error |-> "Config error: " \o exc])
    /\ ThreadGoes(t, "dead")
    /\ UNCHANGED <<callVars, warVars, dashVars, ingestVars, cacheVars,
                   STOP_EVENT, INGEST_THREAD, INGEST_THREAD_LOCK, starters>>
\* while not stop_event.is_set(): the loop ends, or a cycle starts
LoopStopped(t) ==
    /\ ThreadAt(t, "while")
    /\ STOP_EVENT
    /\ ThreadGoes(t, "dead")
    /\ UNCHANGED <<callVars, warVars, dashVars, ingestVars, cacheVars,
                   INGEST_STATE, STOP_EVENT, INGEST_THREAD, INGEST_THREAD_LOCK, starters>>
CycleStarts(t) ==
    /\ ThreadAt(t, "while")
    /\ ~STOP_EVENT
    /\ INGEST_STATE.iterations < MaxIterations
    /\ INGEST_STATE' = update_ingest_state(INGEST_STATE,
                                           [running |-> TRUE,
                                            last_started_utc |-> utc_now_iso(now),
                                            last_error |-> None])
    /\ threads' = [threads EXCEPT ![t] = [pc |-> "try", started |-> now,
                                          parsed_events |-> 0, exc |-> None]]
    /\ UNCHANGED <<callVars, warVars, dashVars, ingestVars, cacheVars,
                   STOP_EVENT, INGEST_THREAD, INGEST_THREAD_LOCK, starters>>
\* run_ingest_cycle: run_collect_once stores the page it fetched, then
\* parse_and_store_news() stores its lines and returns their number
run_ingest_cycle(log, db) ==
    LET After(fetched) ==
            [fetch_log |-> fetched,
             db |-> parse_and_store_news(fetched, db, None),
             parsed_events |-> Len(RowsToUpsert(<<>>, fetched, <<"intel_ops", "kingdom_news">>))]
    IN  After(store_fetch(log, now, "kingdom_news", OriginPage))
CycleReturns(t) ==
    LET Ran(cycle) ==
            /\ cycle.db.news_seq <= MaxNewsId
            /\ fetch_log' = cycle.fetch_log
            /\ kd_news_events' = cycle.db.kd_news_events
            /\ news_seq' = cycle.db.news_seq
            /\ threads' = [threads EXCEPT ![t].pc = "returned",
                                          ![t].parsed_events = cycle.parsed_events]
    IN  /\ ThreadAt(t, "try")
        /\ Ran(run_ingest_cycle(fetch_log, [kd_news_events |-> kd_news_events,
                                            news_seq |-> news_seq]))
        /\ UNCHANGED <<callVars, warVars, dashVars, cacheVars, now, INGEST_STATE,
                       STOP_EVENT, INGEST_THREAD, INGEST_THREAD_LOCK, starters>>
\* the collector raises before it stores a page, or the parser raises after it
CycleRaises(t) ==
    /\ ThreadAt(t, "try")
    /\ \E exc \in CycleFailures :
          /\ threads' = [threads EXCEPT ![t].pc = "except", ![t].exc = exc]
          /\ fetch_log' = IF exc = "database is locked"
                          THEN store_fetch(fetch_log, now, "kingdom_news", OriginPage)
                          ELSE fetch_log
    /\ UNCHANGED <<callVars, warVars, dashVars, cacheVars, kd_news_events, news_seq, now,
                   INGEST_STATE, STOP_EVENT, INGEST_THREAD, INGEST_THREAD_LOCK, starters>>
\* the update that follows run_ingest_cycle in the try block
RecordSuccess(t) ==
    /\ ThreadAt(t, "returned")
    /\ INGEST_STATE' = update_ingest_state(INGEST_STATE,
                                           [last_success_utc |-> utc_now_iso(now),
                                            last_parsed_events |-> threads[t].parsed_events,
                                            last_error |-> None])
    /\ ThreadGoes(t, "finally")
    /\ UNCHANGED <<callVars, warVars, dashVars, ingestVars, cacheVars,
                   STOP_EVENT, INGEST_THREAD, INGEST_THREAD_LOCK, starters>>
\* RecordFailure had it stamped the cycle as a success
RecordFailureAdvancingToken(t) ==
    /\ ThreadAt(t, "except")
    /\ INGEST_STATE' = update_ingest_state(INGEST_STATE,
                                           [last_success_utc |-> utc_now_iso(now),
                                            last_error |-> threads[t].exc])
    /\ ThreadGoes(t, "finally")
    /\ UNCHANGED <<callVars, warVars, dashVars, ingestVars, cacheVars,
                   STOP_EVENT, INGEST_THREAD, INGEST_THREAD_LOCK, starters>>
\* except Exception as exc: update_ingest_state(last_error=str(exc))
RecordFailure(t) ==
    /\ ThreadAt(t, "except")
    /\ INGEST_STATE' = update_ingest_state(INGEST_STATE, [last_error |-> threads[t].exc])
    /\ ThreadGoes(t, "finally")
    /\ UNCHANGED <<callVars, warVars, dashVars, ingestVars, cacheVars,
                   STOP_EVENT, INGEST_THREAD, INGEST_THREAD_LOCK, starters>>
\* finally: under STATE_LOCK
CycleEnds(t) ==
    /\ ThreadAt(t, "finally")
    /\ INGEST_STATE' = [INGEST_STATE EXCEPT
                           !.running = FALSE,
                           !.iterations = INGEST_STATE.iterations + 1,
                           !.last_duration_seconds = now - threads[t].started]
    /\ ThreadGoes(t, "wait")
    /\ UNCHANGED <<callVars, warVars, dashVars, ingestVars, cacheVars,
                   STOP_EVENT, INGEST_THREAD, INGEST_THREAD_LOCK, starters>>
\* time.sleep(poll_seconds) in the place of stop_event.wait(poll_seconds)
WaitSleepsOn(t) ==
    /\ ThreadAt(t, "wait")
    /\ STOP_EVENT
    /\ now < MaxClock
    /\ now' = now + 1
    /\ ThreadGoes(t, "while")
    /\ UNCHANGED <<callVars, warVars, dashVars, cacheVars, fetch_log, kd_news_events, news_seq,
                   INGEST_STATE, STOP_EVENT, INGEST_THREAD, INGEST_THREAD_LOCK, starters>>
\* if stop_event.wait(poll_seconds): break
WaitStopped(t) ==
    /\ ThreadAt(t, "wait")
    /\ STOP_EVENT
    /\ ThreadGoes(t, "dead")
    /\ UNCHANGED <<callVars, warVars, dashVars, ingestVars, cacheVars,
                   INGEST_STATE, STOP_EVENT, INGEST_THREAD, INGEST_THREAD_LOCK, starters>>
\* the wait times out: poll_seconds, 15 at least (collector.py), have passed
WaitTimesOut(t) ==
    /\ ThreadAt(t, "wait")
    /\ ~STOP_EVENT
    /\ now < MaxClock
    /\ now' = now + 1
    /\ ThreadGoes(t, "while")
    /\ UNCHANGED <<callVars, warVars, dashVars, cacheVars, fetch_log, kd_news_events, news_seq,
                   INGEST_STATE, STOP_EVENT, INGEST_THREAD, INGEST_THREAD_LOCK, starters>>
\* __main__: finally: STOP_EVENT.set()
StopEventSet ==
    /\ ~STOP_EVENT
    /\ threads # <<>>
    /\ STOP_EVENT' = TRUE
    /\ UNCHANGED <<callVars, warVars, dashVars, ingestVars, cacheVars,
                   INGEST_STATE, INGEST_THREAD, INGEST_THREAD_LOCK, threads, starters>>
NextStart ==
    \E s \in DOMAIN starters : EnterStart(s) \/ StartRefused(s) \/ StartAllowed(s) \/ LaunchThread(s)
NextLoop ==
    \E t \in 1..MaxThreads :
        \/ ConfigLoaded(t) \/ ConfigError(t)
        \/ LoopStopped(t) \/ CycleStarts(t)
        \/ CycleReturns(t) \/ CycleRaises(t)
        \/ RecordSuccess(t) \/ RecordFailure(t)
        \/ CycleEnds(t)
        \/ WaitStopped(t) \/ WaitTimesOut(t)

InitService ==
    /\ NoPureCall /\ NoWarRun /\ NoDashRun /\ NoIngest
    /\ NoFreshness /\ NoWorker /\ NoCache
    /\ starters = [s \in Starters |-> [pc |-> "idle", result |-> <<>>]]
    /\ handler = NoHandler
NextService == NextStart \/ NextLoop \/ StopEventSet
SpecService == InitService /\ [][NextService]_vars
\* a thread that can take a step of ingest_loop takes one: the interpreter
\* schedules every thread, and run_ingest_cycle returns or raises
LoopStep(t) ==
    \/ ConfigLoaded(t) \/ ConfigError(t)
    \/ LoopStopped(t) \/ CycleStarts(t)
    \/ CycleReturns(t) \/ CycleRaises(t)
    \/ RecordSuccess(t) \/ RecordFailure(t)
    \/ CycleEnds(t)
    \/ WaitStopped(t) \/ WaitTimesOut(t)
SpecServiceFair == SpecService /\ \A t \in 1..MaxThreads : WF_vars(LoopStep(t))

\* thread t takes the step of the code between two positions
Moves(t, from, to) == ThreadAt(t, from) /\ threads'[t].pc = to
LastSuccessChanges == INGEST_STATE'.last_success_utc # INGEST_STATE.last_success_utc
\* the except block of a cycle that raised: the failure is recorded
FailureRecorded ==
    \A t \in 1..Len(threads) :
        Moves(t, "except", "finally") =>
            /\ INGEST_STATE'.last_error # None
            /\ INGEST_STATE'.last_error = threads[t].exc
            /\ ~LastSuccessChanges
\* the finally block of a cycle, whichever way the cycle went
CycleEnded ==
    \A t \in 1..Len(threads) :
        Moves(t, "finally", "wait") =>
            /\ INGEST_STATE'.running = FALSE
            /\ INGEST_STATE'.iterations = INGEST_STATE.iterations + 1
            /\ ~LastSuccessChanges
            /\ threads[t].exc # None => INGEST_STATE'.last_error = threads[t].exc
\* a cycle in progress gets to its finally block by its try or its except block
CycleInProgress(t) == threads[t].pc \in {"try", "returned", "except", "finally"}
CyclePath ==
    \A t \in 1..Len(threads) :
        (CycleInProgress(t) /\ threads'[t].pc # threads[t].pc) =>
            \/ Moves(t, "try", "returned") \/ Moves(t, "try", "except")
            \/ Moves(t, "returned", "finally") \/ Moves(t, "except", "finally")
            \/ Moves(t, "finally", "wait")

\* C13: a cycle that raised records the failure (last_error is the text of the
\* exception, not null) and leaves last_success_utc as it was; last_success_utc
\* changes only in the step that follows a run_ingest_cycle that returned; every
\* cycle, whichever way it went, ends in the finally block, which sets running
\* to false and adds exactly 1 to iterations, and iterations changes nowhere else.
FailedCycleKeepsLastSuccess ==
    /\ [][FailureRecorded /\ CycleEnded /\ CyclePath]_vars
    /\ [][LastSuccessChanges => \E t \in 1..Len(threads) : Moves(t, "returned", "finally")]_vars
    /\ [][INGEST_STATE'.iterations # INGEST_STATE.iterations =>
              \E t \in 1..Len(threads) : Moves(t, "finally", "wait")]_vars
\* a cycle that raised has ended after one that succeeded: the failure is on
\* record next to the time of the earlier success
FailedAfterSuccess ==
    /\ INGEST_STATE.iterations = 2
    /\ INGEST_STATE.running = FALSE
    /\ INGEST_STATE.last_error \in CycleFailures
    /\ INGEST_STATE.last_success_utc # None
    /\ INGEST_STATE.last_started_utc # INGEST_STATE.last_success_utc
    /\ \E t \in 1..Len(threads) : threads[t].pc = "wait" /\ threads[t].exc # None
\* C14: at any time at most one ingest-worker thread is alive, and it is the one
\* INGEST_THREAD names, however the calls of start_ingest_thread interleave; a
\* call that finds the thread alive starts no thread and returns False; and
\* last_success_utc is written by no step but one of that thread.
OneIngestTask ==
    /\ [](Cardinality(AliveThreads) <= 1 /\ AliveThreads \subseteq {INGEST_THREAD})
    /\ [][\A s \in Starters :
              (StarterAt(s, "locked") /\ is_alive(INGEST_THREAD) /\ starters'[s].pc # "locked") =>
                  /\ starters'[s] = [pc |-> "idle", result |-> <<FALSE>>]
                  /\ threads' = threads
                  /\ INGEST_THREAD' = INGEST_THREAD]_vars
    /\ [][LastSuccessChanges =>
              /\ is_alive(INGEST_THREAD)
              /\ Moves(INGEST_THREAD, "returned", "finally")
              /\ starters' = starters]_vars
\* one caller has started the worker, the other has been refused while the
\* worker, which has a success on record, is alive
SecondStartRefused ==
    /\ \E s1, s2 \in Starters :
          /\ StarterAt(s1, "idle") /\ starters[s1].result = <<TRUE>>
          /\ StarterAt(s2, "idle") /\ starters[s2].result = <<FALSE>>
    /\ Cardinality(AliveThreads) = 1
    /\ INGEST_STATE.last_success_utc # None

(***************************************************************************)
(* Scoped cache (app.py): cache_get and cache_set on ANALYTICS_CACHE, as a *)
(* request handler calls them while the ingest worker runs.  A cached      *)
(* value is a list of dicts; heap maps the identity of a Python object to  *)
(* the object, and holds the objects the handler or the cache can reach.   *)
(***************************************************************************)
CACHE_TTL_SECONDS == 2
\* the key of war_context
CacheKeySeq == <<"base_rows_full_analytics">>
CacheKeys == {CacheKeySeq[k] : k \in 1..Len(CacheKeySeq)}
\* the objects alive at once: a list and its dict for the handler and for each key
MaxObjects == 2 * (Cardinality(CacheKeys) + 1)
FieldValues == {0, 1}

\* the n-th identity that no object of h has
NthFree(h, n) ==
    CHOOSE i \in 1..(MaxObjects + n) :
        /\ i \notin DOMAIN h
        /\ Cardinality({j \in 1..(i - 1) : j \notin DOMAIN h}) = n - 1
NewList(items) == [type |-> "list", items |-> items]
NewDict(val) == [type |-> "dict", val |-> val]
\* what a list of dicts holds, whatever the identity of its objects
Content(h, ref) == [k \in 1..Len(h[ref].items) |-> h[h[ref].items[k]].val]
\* The objects the handler and the cache can reach, under the identities
\* that make two heaps of one shape equal: the list of the handler's value is
\* object 1, the list of the entry of the k-th key is object 2k + 1, and a dict
\* is the object after the first list that holds it.  (References: 0 is None.)
RootRefs(cache, value) ==
    <<value>> \o [k \in 1..Len(CacheKeySeq) |->
                    IF CacheKeySeq[k] \in DOMAIN cache THEN cache[CacheKeySeq[k]].value ELSE 0]
FirstRoot(roots, holds(_)) == CHOOSE j \in 1..Len(roots) :
                                  /\ roots[j] # 0 /\ holds(roots[j])
                                  /\ \A i \in 1..(j - 1) : ~(roots[i] # 0 /\ holds(roots[i]))
Renamed(h, roots, ref) ==
    IF ref = 0 THEN 0
    ELSE IF h[ref].type = "list"
    THEN 2 * FirstRoot(roots, LAMBDA r : r = ref) - 1
    ELSE 2 * FirstRoot(roots, LAMBDA r : \E k \in 1..Len(h[r].items) : h[r].items[k] = ref)
Reachable(h, roots) ==
    ({roots[j] : j \in 1..Len(roots)} \ {0})
        \cup UNION {{h[roots[j]].items[k] : k \in 1..Len(h[roots[j]].items)} :
                        j \in {i \in 1..Len(roots) : roots[i] # 0}}
CollectedHeap(h, roots) ==
    LET live == Reachable(h, roots)
        Object(old) == IF h[old].type = "list"
                       THEN NewList([k \in 1..Len(h[old].items) |->
                                        Renamed(h, roots, h[old].items[k])])
                       ELSE h[old]
    IN  [new \in {Renamed(h, roots, old) : old \in live} |->
            Object(CHOOSE old \in live : Renamed(h, roots, old) = new)]
CollectedCache(h, cache, value) ==
    [k \in DOMAIN cache |->
        [cache[k] EXCEPT !.value = Renamed(h, RootRefs(cache, value), cache[k].value)]]
\* copy.deepcopy had it returned the object itself
SameObject(h, ref) == [heap |-> h, ref |-> ref]
\* copy.deepcopy(value): a new list of new dicts with the same content
deepcopy(h, ref) ==
    LET Copy(n) ==
            LET dicts == [k \in 1..n |-> NthFree(h, k)]
            IN  [heap |-> (NthFree(h, n + 1) :> NewList(dicts))
                          @@ [i \in {dicts[k] : k \in 1..n} |->
                                 h[h[ref].items[CHOOSE k \in 1..n : dicts[k] = i]]]
                          @@ h,
                 ref |-> NthFree(h, n + 1)]
    IN  IF ref = 0 THEN [heap |-> h, ref |-> 0] ELSE Copy(Len(h[ref].items))

\* ANALYTICS_CACHE.pop(key, None)
Popped(cache, key) == [k \in DOMAIN cache \ {key} |-> cache[k]]
\* cache_get had it left the entry it found stale or expired in the cache
cache_get_keeping(cache, h, key, token, time) ==
    IF key \in DOMAIN cache /\ cache[key].token = token /\ ~(cache[key].expires < time)
    THEN [cache |-> cache, copy |-> deepcopy(h, cache[key].value), hit |-> TRUE]
    ELSE [cache |-> cache, copy |-> [heap |-> h, ref |-> 0], hit |-> FALSE]
\* cache_get(key) under CACHE_LOCK, with the token and the time it read on entry:
\* the cache afterwards and the value returned (reference 0 is None)
cache_get(cache, h, key, token, time) ==
    IF key \notin DOMAIN cache
    THEN [cache |-> cache, copy |-> [heap |-> h, ref |-> 0], hit |-> FALSE]
    ELSE IF cache[key].token # token
    THEN [cache |-> Popped(cache, key), copy |-> [heap |-> h, ref |-> 0], hit |-> FALSE]
    ELSE IF cache[key].expires < time
    THEN [cache |-> Popped(cache, key), copy |-> [heap |-> h, ref |-> 0], hit |-> FALSE]
    ELSE [cache |-> cache, copy |-> deepcopy(h, cache[key].value), hit |-> TRUE]
\* cache_set(key, value) under CACHE_LOCK, with the token it read on entry
cache_set(cache, h, key, token, time, value) ==
    LET Stored(copy) ==
            [cache |-> (key :> [token |-> token,
                                expires |-> time + CACHE_TTL_SECONDS,
                                value |-> copy.ref]) @@ cache,
             heap |-> copy.heap]
    IN  Stored(deepcopy(h, value))

HandlerAt(pc) == handler.pc = pc
HoldsValue == handler.value # 0
\* the cache, the handler and the objects they reach after a step of the handler
MemoryBecomes(h, cache, handler_after) ==
    LET Under(roots) ==
            /\ heap' = CollectedHeap(h, roots)
            /\ ANALYTICS_CACHE' = CollectedCache(h, cache, handler_after.value)
            /\ handler' = [handler_after EXCEPT !.value = Renamed(h, roots, handler_after.value)]
    IN  Under(RootRefs(cache, handler_after.value))
HandlerStep == UNCHANGED <<callVars, warVars, dashVars, ingestVars, threadVars, INGEST_STATE>>

\* the handler computes a value: rows fetched, analytics built
BuildValue ==
    /\ HandlerAt("idle")
    /\ \E val \in FieldValues :
          LET Built(list, dict) ==
                  MemoryBecomes((list :> NewList(<<dict>>)) @@ (dict :> NewDict(val)) @@ heap,
                                ANALYTICS_CACHE, [pc |-> "idle", value |-> list])
          IN  Built(NthFree(heap, 2), NthFree(heap, 1))
    /\ HandlerStep
\* the handler changes a dict of the value it holds
MutateDict ==
    /\ HandlerAt("idle")
    /\ HoldsValue
    /\ \E k \in 1..Len(heap[handler.value].items) :
          LET Flipped(dict) ==
                  MemoryBecomes([heap EXCEPT ![dict].val = 1 - heap[dict].val],
                                ANALYTICS_CACHE, handler)
          IN  Flipped(heap[handler.value].items[k])
    /\ HandlerStep
\* cache_get(key): token = cache_token(); now = time.time()
GetEnters ==
    /\ HandlerAt("idle")
    /\ \E key \in CacheKeys :
          MemoryBecomes(heap, ANALYTICS_CACHE,
                        [pc |-> "cache_get", key |-> key, token |-> cache_token(INGEST_STATE),
                         time |-> now, value |-> 0])
    /\ HandlerStep
\* with CACHE_LOCK: ... return
GetReturns ==
    LET Returned(got) ==
            MemoryBecomes(got.copy.heap, got.cache,
                          [pc |-> "idle", value |-> got.copy.ref,
                           result |-> IF got.hit THEN "hit" ELSE "miss"])
    IN  /\ HandlerAt("cache_get")
        /\ Returned(cache_get(ANALYTICS_CACHE, heap, handler.key, handler.token, handler.time))
        /\ HandlerStep
\* cache_set(key, value): token = cache_token()
SetEnters ==
    /\ HandlerAt("idle")
    /\ HoldsValue
    /\ \E key \in CacheKeys :
          MemoryBecomes(heap, ANALYTICS_CACHE,
                        [pc |-> "cache_set", key |-> key, token |-> cache_token(INGEST_STATE),
                         value |-> handler.value])
    /\ HandlerStep
\* with CACHE_LOCK: ANALYTICS_CACHE[key] = {...}, expires from time.time() there
SetStores ==
    LET Stored(set) ==
            MemoryBecomes(set.heap, set.cache, [pc |-> "idle", value |-> handler.value])
    IN  /\ HandlerAt("cache_set")
        /\ Stored(cache_set(ANALYTICS_CACHE, heap, handler.key, handler.token, now,
                            handler.value))
        /\ HandlerStep

\* a second passes, until an entry stored at the start is past its expiry
Tick ==
    /\ now <= CACHE_TTL_SECONDS
    /\ now' = now + 1
    /\ UNCHANGED <<callVars, warVars, dashVars, serviceVars, fetch_log, kd_news_events, news_seq>>

NextHandler ==
    \/ BuildValue \/ MutateDict
    \/ GetEnters \/ GetReturns
    \/ SetEnters \/ SetStores

\* the worker as start_ingest_thread has launched it, and the steps it takes
\* while nobody sets STOP_EVENT
WorkerLaunched ==
    /\ STOP_EVENT = FALSE
    /\ INGEST_THREAD = 1
    /\ INGEST_THREAD_LOCK = "free"
    /\ threads = <<[pc |-> "load", started |-> 0, parsed_events |-> 0, exc |-> None]>>
    /\ starters = <<>>
NextWorker ==
    \/ ConfigLoaded(INGEST_THREAD) \/ ConfigError(INGEST_THREAD)
    \/ CycleStarts(INGEST_THREAD)
    \/ CycleReturns(INGEST_THREAD) \/ CycleRaises(INGEST_THREAD)
    \/ RecordSuccess(INGEST_THREAD) \/ RecordFailure(INGEST_THREAD)
    \/ CycleEnds(INGEST_THREAD)
    \/ WaitTimesOut(INGEST_THREAD)

InitCache ==
    /\ NoPureCall /\ NoWarRun /\ NoDashRun /\ NoIngest
    /\ NoFreshness /\ WorkerLaunched /\ NoCache
    /\ handler = NoHandler
NextCache == NextWorker \/ Tick \/ NextHandler
SpecCache == InitCache /\ [][NextCache]_vars

\* war_context after a miss: all_rows = fetch_event_rows() and the analytics of
\* these rows; the value is a dict that holds the number of rows selected
fetch_event_rows(table) == Len(table)
FetchEventRows ==
    /\ HandlerAt("idle")
    /\ "result" \in DOMAIN handler
    /\ handler.result = "miss"
    /\ LET Built(list, dict) ==
               MemoryBecomes((list :> NewList(<<dict>>))
                             @@ (dict :> NewDict(fetch_event_rows(kd_news_events))) @@ heap,
                             ANALYTICS_CACHE, [pc |-> "fetched", value |-> list])
       IN  Built(NthFree(heap, 2), NthFree(heap, 1))
    /\ HandlerStep
\* cache_set("base_rows_full_analytics", (all_rows, full_analytics)): the token
ContextSetEnters ==
    /\ HandlerAt("fetched")
    /\ MemoryBecomes(heap, ANALYTICS_CACHE,
                     [pc |-> "cache_set", key |-> "base_rows_full_analytics",
                      token |-> cache_token(INGEST_STATE), value |-> handler.value])
    /\ HandlerStep
\* requests that call war_context one after another, beside the worker
NextContext ==
    \/ GetEnters \/ GetReturns
    \/ FetchEventRows
    \/ ContextSetEnters \/ SetStores
SpecContext == InitCache /\ [][NextWorker \/ NextContext]_vars

\* the step in which cache_get returns, and in which cache_set stores under key
GetReturnsStep == HandlerAt("cache_get") /\ handler'.pc = "idle"
SetStoresStep(key) == HandlerAt("cache_set") /\ handler.key = key /\ handler'.pc = "idle"
\* an entry for key with the token given, not yet past its expiry at the time given
FreshEntry(key, token, time) ==
    /\ key \in DOMAIN ANALYTICS_CACHE
    /\ ANALYTICS_CACHE[key].token = token
    /\ ANALYTICS_CACHE[key].expires >= time
\* the objects of a value: the list and its dicts
ObjectsOf(h, ref) == {ref} \cup {h[ref].items[k] : k \in 1..Len(h[ref].items)}

\* C11: cache_get(key) returns a hit exactly when the cache holds an entry for
\* key whose token is the freshness token the call read (cache_token(), that is
\* last_success_utc) and whose expiry is not before the time the call read; then
\* the entry stays as it is and the value returned has the content stored.  In
\* every other case it returns None, and after the call the cache holds no entry
\* for key: the entry found stale by token or past its expiry has been removed.
CacheGetHitsOnlyFresh ==
    [][GetReturnsStep =>
          /\ handler'.result \in {"hit", "miss"}
          /\ handler'.result = "hit" <=> FreshEntry(handler.key, handler.token, handler.time)
          /\ handler'.result = "miss" <=> handler'.value = 0
          /\ FreshEntry(handler.key, handler.token, handler.time) =>
                 /\ handler.key \in DOMAIN ANALYTICS_CACHE'
                 /\ ANALYTICS_CACHE'[handler.key].token = ANALYTICS_CACHE[handler.key].token
                 /\ ANALYTICS_CACHE'[handler.key].expires = ANALYTICS_CACHE[handler.key].expires
                 /\ Content(heap', ANALYTICS_CACHE'[handler.key].value)
                        = Content(heap, ANALYTICS_CACHE[handler.key].value)
                 /\ Content(heap', handler'.value)
                        = Content(heap, ANALYTICS_CACHE[handler.key].value)
          /\ ~FreshEntry(handler.key, handler.token, handler.time) =>
                 handler.key \notin DOMAIN ANALYTICS_CACHE']_vars
\* cache_get is about to return on an entry that has outlived its token, and on
\* one that has outlived its TTL under the token it was stored with
StaleEntryRead ==
    /\ HandlerAt("cache_get")
    /\ handler.key \in DOMAIN ANALYTICS_CACHE
    /\ \/ /\ ANALYTICS_CACHE[handler.key].token # handler.token
          /\ ANALYTICS_CACHE[handler.key].expires >= handler.time
          /\ handler.token = cache_token(INGEST_STATE)
       \/ /\ ANALYTICS_CACHE[handler.key].token = handler.token
          /\ ANALYTICS_CACHE[handler.key].expires < handler.time

\* C12: the content of a cache entry changes in no step but a cache_set on its
\* key, whatever the handler does to the value it passed to cache_set or to a
\* value cache_get returned; cache_set stores the content the value has then, in
\* objects of its own; a hit returns the content stored, in objects of its own.
\* Two hits with no cache_set between them so return equal values.
CachedStateIsolated ==
    [][/\ \A key \in DOMAIN ANALYTICS_CACHE \cap DOMAIN ANALYTICS_CACHE' :
              ~SetStoresStep(key) =>
                  Content(heap', ANALYTICS_CACHE'[key].value)
                      = Content(heap, ANALYTICS_CACHE[key].value)
       /\ \A key \in CacheKeys :
              SetStoresStep(key) =>
                  /\ key \in DOMAIN ANALYTICS_CACHE'
                  /\ Content(heap', ANALYTICS_CACHE'[key].value) = Content(heap, handler.value)
                  /\ ObjectsOf(heap', ANALYTICS_CACHE'[key].value)
                         \cap ObjectsOf(heap', handler'.value) = {}
       /\ (GetReturnsStep /\ handler'.result = "hit") =>
              /\ Content(heap', handler'.value)
                     = Content(heap, ANALYTICS_CACHE[handler.key].value)
              /\ ObjectsOf(heap', ANALYTICS_CACHE'[handler.key].value)
                     \cap ObjectsOf(heap', handler'.value) = {}]_vars
\* the handler has changed the value a hit returned: it differs from the entry
MutatedAfterHit ==
    /\ HandlerAt("idle")
    /\ HoldsValue
    /\ "result" \in DOMAIN handler
    /\ handler.result = "hit"
    /\ \E key \in DOMAIN ANALYTICS_CACHE :
          Content(heap, handler.value) # Content(heap, ANALYTICS_CACHE[key].value)

(***************************************************************************)
(* War records: invariants of build_war_rows.                              *)
(***************************************************************************)
WarRows == {wars[k] : k \in 1..Len(wars)}
SameOpponent(a, b) ==
    a.opponent_kingdom = b.opponent_kingdom /\ a.opponent_name = b.opponent_name

\* C1: every war row that build_war_rows returns has a start_key, and a closed
\* row has an end_key that is not before its start_key.
WarWindowWellFormed ==
    wpc = "done" =>
        \A w \in WarRows :
            /\ w.start_key # NoKey
            /\ w.status = "closed" => w.end_key # NoKey /\ KeyLeq(w.start_key, w.end_key)

\* C2: of the rows that build_war_rows returns, at most one per opponent is active.
OneActiveWarPerOpponent ==
    wpc = "done" =>
        \A i, j \in 1..Len(wars) :
            (i # j /\ wars[i].status = "active" /\ wars[j].status = "active")
                => ~SameOpponent(wars[i], wars[j])

\* C3: a loop iteration on a declare event appends one row to wars, with status
\* active and the next war_id in sequence, which no earlier row has, and changes
\* no earlier row (so a closed war is never reopened).
DeclareAppendsFreshWar ==
    [][(InLoop /\ Parsed.event_type = "declare") =>
          /\ Len(wars') = Len(wars) + 1
          /\ \A k \in 1..Len(wars) : wars'[k] = wars[k]
          /\ wars'[Len(wars')].status = "active"
          /\ wars'[Len(wars')].war_id = Str(Len(wars) + 1)
          /\ \A k \in 1..Len(wars) : wars[k].war_id # wars'[Len(wars')].war_id]_vars

\* C3 witness: after declare, end, declare against one opponent the first war is
\* closed and the re-declared war is active under the next war_id
RedeclaredAfterClose ==
    /\ wpc = "loop"
    /\ Len(wars) = 2
    /\ SameOpponent(wars[1], wars[2])
    /\ wars[1].status = "closed"
    /\ wars[2].status = "active"
    /\ wars[1].war_id = "1"
    /\ wars[2].war_id = "2"

\* a loop iteration on an event of one type; the step leaves every row but w alone
EventIs(event_type) == InLoop /\ Parsed.event_type = event_type
OtherRowsKept(w) ==
    /\ Len(wars') = Len(wars)
    /\ \A k \in 1..Len(wars) : k # w => wars'[k] = wars[k]
NothingChanges == wars' = wars /\ open_wars' = open_wars /\ war_seq' = war_seq

\* C17: a loop iteration on an end event while no war is open changes no row of
\* wars, appends none, leaves open_wars empty, and moves on to the next event.
EndWithoutOpenWarDiscarded ==
    [][(EventIs("end") /\ open_wars = <<>>) =>
          /\ NothingChanges
          /\ ev_i' = ev_i + 1
          /\ wpc' = "loop"]_vars

\* C17 witness: the loop has just passed an end event that found the one war
\* closed, by an earlier end event of another day
EndAfterCloseSkipped ==
    /\ wpc = "loop"
    /\ ev_i > 1
    /\ ordered_war_events[ev_i - 1].event_type = "end"
    /\ open_wars = <<>>
    /\ Len(wars) = 1
    /\ wars[1].status = "closed"
    /\ wars[1].end_key # NoKey
    /\ ordered_war_events[ev_i - 1].day_key # NoKey
    /\ wars[1].end_key # ordered_war_events[ev_i - 1].day_key

\* the opponent an end event names, and the open wars that match it: positions in
\* open_wars, which is kept in the order the wars were opened
EndKingdom == IF Truthy(Parsed.opponent_raw) THEN Parsed.opponent_kingdom ELSE None
EndName == IF Truthy(Parsed.opponent_raw) THEN Parsed.opponent_name ELSE None
KingdomMatches ==
    {k \in 1..Len(open_wars) :
        Truthy(EndKingdom) /\ wars[open_wars[k]].opponent_kingdom = EndKingdom}
NameMatches ==
    {k \in 1..Len(open_wars) :
        Truthy(EndName) /\ Lower(wars[open_wars[k]].opponent_name) = Lower(EndName)}
MostRecent(K) == open_wars[CHOOSE k \in K : \A j \in K : j <= k]
Closes(w) ==
    /\ wars[w].status = "active"
    /\ wars'[w].status = "closed"
    /\ OtherRowsKept(w)
    /\ open_wars' = SelectSeq(open_wars, LAMBDA k : k # w)

\* C18: a loop iteration on an end event closes the most recently opened war with
\* the event's opponent kingdom if there is one, even when a war opened later has
\* the event's opponent name; otherwise the most recently opened war with that
\* name, compared without case.
EndPrefersKingdomMatch ==
    [][EventIs("end") =>
          /\ KingdomMatches # {} => Closes(MostRecent(KingdomMatches))
          /\ (KingdomMatches = {} /\ NameMatches # {}) => Closes(MostRecent(NameMatches))]_vars

\* C19: a loop iteration on an end event that matches no open war by kingdom or
\* name closes the open war when exactly one is open, and closes none otherwise.
UnmatchedEndClosesOnlySoleWar ==
    [][(EventIs("end") /\ KingdomMatches = {} /\ NameMatches = {}) =>
          IF Len(open_wars) = 1 THEN Closes(open_wars[1]) ELSE NothingChanges]_vars

\* the closed wars still without a post-war expiry, and the one closed last
AwaitingPostwar ==
    {k \in 1..Len(wars) : wars[k].status = "closed" /\ ~Truthy(wars[k].postwar_expires)}
LastClosed ==
    CHOOSE k \in AwaitingPostwar :
        \A j \in AwaitingPostwar : KeyLeq(wars[j].end_key, wars[k].end_key)

\* C20: a loop iteration on a postwar_start event appends no row, changes no
\* status, start_key or end_key, changes nothing when no closed war is without a
\* post-war expiry, and otherwise sets postwar_expires on the war among those that
\* was closed last, and changes no other row.
PostwarStartMarksLastClosed ==
    [][EventIs("postwar_start") =>
          /\ Len(wars') = Len(wars)
          /\ open_wars' = open_wars
          /\ \A k \in 1..Len(wars) :
                /\ wars'[k].status = wars[k].status
                /\ wars'[k].start_key = wars[k].start_key
                /\ wars'[k].end_key = wars[k].end_key
          /\ AwaitingPostwar = {} => wars' = wars
          /\ AwaitingPostwar # {} =>
                /\ wars'[LastClosed].postwar_expires = Parsed.expiry
                /\ OtherRowsKept(LastClosed)]_vars

\* the wars with a post-war expiry and no post-war-end day yet; the number of
\* events after which a war had its expiry; the war of those that got it last
AwaitingPostwarEnd ==
    {k \in 1..Len(wars) :
        Truthy(wars[k].postwar_expires) /\ ~Truthy(wars[k].postwar_end_day)}
HadExpiryAfter(k, j) ==
    LET Had(st) == Len(st.wars) >= k /\ Truthy(st.wars[k].postwar_expires)
    IN  Had(RunWarEvents([wars |-> <<>>, open_wars |-> <<>>, war_seq |-> 0],
                         SubSeq(ordered_war_events, 1, j)))
ExpiryAssignedAt(k) == MinOf({j \in 1..(ev_i - 1) : HadExpiryAfter(k, j)})
LastAssigned ==
    CHOOSE k \in AwaitingPostwarEnd :
        \A j \in AwaitingPostwarEnd : ExpiryAssignedAt(j) <= ExpiryAssignedAt(k)

\* C21: a loop iteration on a postwar_end event appends no row, gives no
\* post-war-end day to a war without a post-war expiry, changes nothing when no
\* war has an expiry without an end day, and otherwise sets postwar_end_day on the
\* war among those whose expiry was assigned last, and changes no other row.
PostwarEndMarksLastAssigned ==
    [][EventIs("postwar_end") =>
          /\ Len(wars') = Len(wars)
          /\ open_wars' = open_wars
          /\ \A k \in 1..Len(wars) :
                ~Truthy(wars[k].postwar_expires) =>
                    wars'[k].postwar_end_day = wars[k].postwar_end_day
          /\ AwaitingPostwarEnd = {} => wars' = wars
          /\ AwaitingPostwarEnd # {} =>
                /\ wars'[LastAssigned].postwar_end_day = Or(Event.event_time_text, "")
                /\ OtherRowsKept(LastAssigned)]_vars

\* the lists that hold the events of war_events in another order
EventOrders ==
    {[i \in 1..Len(war_events) |-> war_events[p[i]]] :
        p \in Permutations(1..Len(war_events))}

\* C22: the loop runs over the events in ascending order of (day key, row_id), and
\* the rows build_war_rows returns are those it returns for the same events passed
\* in any other order.
EventOrderIrrelevant ==
    /\ wpc # "sort" =>
          /\ Len(ordered_war_events) = Len(war_events)
          /\ \A i \in 1..Len(war_events) :
                \E j \in 1..Len(ordered_war_events) : ordered_war_events[j] = war_events[i]
          /\ \A i, j \in 1..Len(ordered_war_events) :
                i < j => KeyLess(WarEventKey(ordered_war_events[i]),
                                 WarEventKey(ordered_war_events[j]))
    /\ wpc = "done" =>
          \A events \in EventOrders :
              build_war_rows(events, attack_records, home_kingdom) = wars

\* C22 witness: the end of a war passed before its declaration, which is of an
\* earlier day, and two events of one day passed after a later one
EndPassedBeforeDeclaration ==
    /\ wpc = "done"
    /\ Len(war_events) = 3
    /\ war_events[1].event_type = "end"
    /\ war_events[2].event_type = "declare"
    /\ war_events[3].event_type = "postwar_start"
    /\ war_events[2].day_key = war_events[3].day_key
    /\ war_events[2].day_key # NoKey
    /\ war_events[1].day_key # NoKey
    /\ KeyLess(war_events[2].day_key, war_events[1].day_key)
    /\ Len(wars) = 1
    /\ wars[1].status = "closed"
    /\ wars[1].postwar_expires = "-"

\* the attacks of attack_records in the half-open window [start_key, end_key) of a
\* war row, from actor to target
InHalfOpenWindow(d, w) ==
    /\ d # NoKey
    /\ w.start_key # NoKey
    /\ KeyLeq(w.start_key, d)
    /\ w.end_key = NoKey \/ KeyLess(d, w.end_key)
AttacksInWindow(w, actor, target) ==
    {i \in 1..Len(attack_records) :
        /\ InHalfOpenWindow(attack_records[i].day_key, w)
        /\ attack_records[i].actor_kingdom = actor
        /\ attack_records[i].target_kingdom = target}

\* C10: hits_for and hits_against of a returned row count exactly the attacks
\* between home and opponent whose day is at or after start_key and before end_key.
AttackCountedInHalfOpenWindow ==
    wpc = "done" =>
        \A w \in WarRows :
            /\ w.hits_for = Cardinality(AttacksInWindow(w, home_kingdom, w.opponent_kingdom))
            /\ w.hits_against = Cardinality(AttacksInWindow(w, w.opponent_kingdom, home_kingdom))

(***************************************************************************)
(* Operation-kind classifier (app.py).                                     *)
(***************************************************************************)
OP_SUPPORT_NAMES ==
    {"minor protection", "greater protection", "magic shield", "fertile lands",
     "inspire army", "fanaticism", "bloodlust", "patriotism", "town watch",
     "quick feet", "aggression", "war spoils", "nature's blessing", "builders boon",
     "fountain of knowledge", "love and peace", "mystic aura", "reflect magic",
     "animate dead", "ghost workers", "miner's mystique", "mind focus", "mist",
     "revelation", "mage's fury", "guile", "invisibility"}
OP_INTEL_KEYWORDS ==
    {"spy", "survey", "crystal ball", "revelation", "shadow light",
     "illuminate shadows", "infiltrate"}

\* " ".join((name or "").strip().lower().split())
operation_key(name) == JoinSplit(Lower(Strip(Or(name, ""))))

\* the tiers in the order the intel keywords come before the support names
IntelBeforeSupport(op_key, actor_key, target_key) ==
    IF actor_key # "" /\ target_key # "" /\ actor_key = target_key THEN "support"
    ELSE IF \E token \in OP_INTEL_KEYWORDS : Contains(op_key, token) THEN "intel"
    ELSE IF op_key \in OP_SUPPORT_NAMES THEN "support"
    ELSE "hostile"
\* the three tiers of classify_operation_kind on the three keys
OperationKindOfKeys(op_key, actor_key, target_key) ==
    IF actor_key # "" /\ target_key # "" /\ actor_key = target_key THEN "support"
    ELSE IF op_key \in OP_SUPPORT_NAMES THEN "support"
    ELSE IF \E token \in OP_INTEL_KEYWORDS : Contains(op_key, token) THEN "intel"
    ELSE "hostile"

classify_operation_kind(op_name, actor, target) ==
    OperationKindOfKeys(operation_key(op_name), operation_key(actor), operation_key(target))

(***************************************************************************)
(* Calls of the pure functions: call holds the arguments, then the result. *)
(***************************************************************************)
MaxAcres == 3
MaxRawLen == 5

Called(fn, args) == [fn |-> fn, args |-> args, pc |-> "called"]
Returned(result) ==
    [fn |-> call.fn, args |-> call.args, pc |-> "returned", result |-> result]
Returns(fn) == call.fn = fn /\ call.pc = "called"
OnlyCall == wpc = "idle" /\ UNCHANGED <<warVars, dashVars, ingestVars, serviceVars>>

\* effective_land_impact on small acreages, the acreage of the unit test, every
\* attack type of classify_attack_type, in and out of war
AcreValues == 0..MaxAcres \cup {131}
AttackTypes == {"Ambush", "Massacre", "Learn", "Plunder", "Raze", "Conquest",
                "Traditional March", "Other"}
InitLandImpact ==
    /\ \E t \in AcreValues, l \in AcreValues, ty \in AttackTypes, w \in BOOLEAN :
          call = Called("effective_land_impact", <<t, l, ty, w>>)
    /\ NoWarRun /\ NoDashRun /\ NoIngest /\ NoService
LandImpactReturns ==
    /\ Returns("effective_land_impact")
    /\ call' = Returned(effective_land_impact(call.args[1], call.args[2],
                                              call.args[3], call.args[4]))
    /\ OnlyCall
SpecLandImpact == InitLandImpact /\ [][LandImpactReturns]_vars

\* classify_war_result on closing texts, on texts without any of its phrases and in
\* upper case, and as build_war_rows calls it: on the summary of the event after
\* the declaration of a war with Foo (2:3)
ResultTexts ==
    ClosingTexts \cup {None, "", "Peace at last.",
                       "WE HAVE WON THE WAR WITH FOO (2:3)! IT ENDED IN PEACE."}
InitWarResult ==
    /\ NoDashRun /\ NoIngest /\ NoService
    /\ \/ /\ \E text \in ResultTexts : call = Called("classify_war_result", <<text>>)
          /\ NoWarRun
       \/ /\ NoPureCall
          /\ \E n \in 1..2 :
                \E text \in ClosingTexts \cup {"A dragon has begun ravaging our lands!"} :
                    war_events =
                        SubSeq(<<WarEvent(1, "We have declared WAR on Foo (2:3)!",
                                          "January 1 of YR1"),
                                 WarEvent(2, text, "January 2 of YR1")>>, 1, n)
          /\ attack_records = <<>>
          /\ home_kingdom = "1:1"
          /\ WarStart
WarResultReturns ==
    /\ Returns("classify_war_result")
    /\ call' = Returned(classify_war_result(call.args[1]))
    /\ OnlyCall
NextWarResult ==
    \/ WarResultReturns
    \/ SortEvents \/ SkipEvent \/ DeclareEvent \/ EndEvent
    \/ AttributeStep \/ FinalizeStep
SpecWarResult == InitWarResult /\ [][NextWarResult]_vars

\* classify_attack_type on summaries that hold two of the words it looks for, or
\* a word it does not look for, in either order, on none and in upper case
AttackWords ==
    {"ambushed armies from", "recaptured", "massacre", "learned", "learn attack",
     "plundered", "pillaged", "razed", "conquest", "conquered", "captured", "invaded",
     "marched on"}
AttackTexts ==
    {"Our army " \o first \o " and " \o second \o " 2 - Foo (2:3)." :
        first \in AttackWords, second \in AttackWords}
    \cup {None, "", "  OUR ARMY RAZED AND RECAPTURED 2 - FOO (2:3).  "}
InitAttackType ==
    /\ \E text \in AttackTexts : call = Called("classify_attack_type", <<text>>)
    /\ NoWarRun /\ NoDashRun /\ NoIngest /\ NoService
AttackTypeReturns ==
    /\ Returns("classify_attack_type")
    /\ call' = Returned(classify_attack_type(call.args[1]))
    /\ OnlyCall
SpecAttackType == InitAttackType /\ [][AttackTypeReturns]_vars

(***************************************************************************)
(* db.py: _with_retry(fn, attempts=4), one step per statement.  What fn and *)
(* cn.commit() do at each attempt is an input: a value returned and         *)
(* committed, an sqlite3.OperationalError from fn or from the commit, or an *)
(* exception of another class.  Delays are in milliseconds.                 *)
(***************************************************************************)
RetryAttempts == 4
Value(value) == [kind |-> "value", at |-> "fn", message |-> value]
OperationalError(at, message) == [kind |-> "OperationalError", at |-> at, message |-> message]
IntegrityError(message) == [kind |-> "IntegrityError", at |-> "fn", message |-> message]
AttemptOutcomes ==
    {Value("3 rows"),
     OperationalError("fn", "database is locked"),
     OperationalError("fn", "Database is BUSY"),
     OperationalError("commit", "database table is locked: kd_news_events"),
     OperationalError("fn", "no such table: kd_news_events"),
     IntegrityError("UNIQUE constraint failed on the locked row")}
InitRetry ==
    /\ \E script \in [1..RetryAttempts -> AttemptOutcomes] :
          call = [fn |-> "_with_retry", args |-> <<script, RetryAttempts>>, pc |-> "connect",
                  index |-> 0, last_error |-> None, exc |-> None, value |-> None,
                  after |-> None, runs |-> 0, commits |-> 0, opened |-> 0, closed |-> 0,
                  slept |-> <<>>, result |-> None]
    /\ NoWarRun /\ NoDashRun /\ NoIngest /\ NoService
RetryAt(pc) == call.fn = "_with_retry" /\ call.pc = pc
Attempt == call.args[1][call.index + 1]
\* cn = connect()
RetryConnects ==
    /\ RetryAt("connect")
    /\ call' = [call EXCEPT !.pc = "try", !.opened = @ + 1]
    /\ OnlyCall
\* value = fn(cn): it returns, or raises into the except clause or past it
RetryRuns ==
    /\ RetryAt("try")
    /\ call' = IF Attempt.kind = "value" \/ Attempt.at = "commit"
               THEN [call EXCEPT !.pc = "commit", !.runs = @ + 1, !.value = "3 rows"]
               ELSE IF Attempt.kind = "OperationalError"
               THEN [call EXCEPT !.pc = "except", !.runs = @ + 1, !.exc = Attempt.message]
               ELSE [call EXCEPT !.pc = "finally", !.runs = @ + 1, !.exc = Attempt.message,
                                 !.after = "raise"]
    /\ OnlyCall
\* cn.commit(); return value
RetryCommits ==
    /\ RetryAt("commit")
    /\ call' = IF Attempt.at = "commit"
               THEN [call EXCEPT !.pc = "except", !.exc = Attempt.message]
               ELSE [call EXCEPT !.pc = "finally", !.commits = @ + 1, !.after = "return"]
    /\ OnlyCall
\* the except clause had it no test of the message
RetryExceptAnyError ==
    /\ RetryAt("except")
    /\ call' = IF call.index = call.args[2] - 1
               THEN [call EXCEPT !.pc = "finally", !.last_error = call.exc, !.after = "raise"]
               ELSE [call EXCEPT !.pc = "sleep", !.last_error = call.exc]
    /\ OnlyCall
\* except sqlite3.OperationalError as exc: up to the sleep
RetryExcept ==
    LET message == Lower(call.exc)
    IN  /\ RetryAt("except")
        /\ call' = IF ~Contains(message, "locked") /\ ~Contains(message, "busy")
                   THEN [call EXCEPT !.pc = "finally", !.last_error = call.exc,
                                     !.after = "raise"]
                   ELSE IF call.index = call.args[2] - 1
                   THEN [call EXCEPT !.pc = "finally", !.last_error = call.exc,
                                     !.after = "raise"]
                   ELSE [call EXCEPT !.pc = "sleep", !.last_error = call.exc]
        /\ OnlyCall
\* time.sleep(0.15 * (index + 1))
RetrySleeps ==
    /\ RetryAt("sleep")
    /\ call' = [call EXCEPT !.pc = "finally", !.slept = Append(@, 150 * (call.index + 1)),
                            !.exc = None, !.after = "continue"]
    /\ OnlyCall
\* finally: cn.close(), and what follows it: the return, the exception, or the
\* next round of the loop and, after the last, "if last_error: raise last_error"
RetryCloses ==
    /\ RetryAt("finally")
    /\ call' = IF call.after = "return"
               THEN [call EXCEPT !.pc = "returned", !.closed = @ + 1, !.result = call.value]
               ELSE IF call.after = "raise"
               THEN [call EXCEPT !.pc = "raised", !.closed = @ + 1, !.result = call.exc]
               ELSE IF call.index + 1 < call.args[2]
               THEN [call EXCEPT !.pc = "connect", !.closed = @ + 1, !.index = @ + 1,
                                 !.after = None]
               ELSE IF call.last_error # None
               THEN [call EXCEPT !.pc = "raised", !.closed = @ + 1, !.index = @ + 1,
                                 !.result = call.last_error]
               ELSE [call EXCEPT !.pc = "returned", !.closed = @ + 1, !.index = @ + 1,
                                 !.result = None]
    /\ OnlyCall
NextRetry ==
    \/ RetryConnects
    \/ RetryRuns
    \/ RetryCommits
    \/ RetryExcept
    \/ RetrySleeps
    \/ RetryCloses
SpecRetry == InitRetry /\ [][NextRetry]_vars

\* classify_operation_kind on operation names and parties that differ in case
\* and spacing
OpNames == {"Minor Protection", "Spy on Throne", "Night Strike", "Revelation",
            "  REVELATION ", "Greater Revelation", "Crystal  Ball", "Mist", "Mistake",
            "", None}
OpParties == {"A", " a ", "B", "", None}
InitOperationKind ==
    /\ \E op \in OpNames, a \in OpParties, t \in OpParties :
          call = Called("classify_operation_kind", <<op, a, t>>)
    /\ NoWarRun /\ NoDashRun /\ NoIngest /\ NoService
OperationKindReturns ==
    /\ Returns("classify_operation_kind")
    /\ call' = Returned(classify_operation_kind(call.args[1], call.args[2], call.args[3]))
    /\ OnlyCall
SpecOperationKind == InitOperationKind /\ [][OperationKindReturns]_vars

\* normalize_party on every raw name of up to MaxRawLen characters of slot
\* prefixes, coordinates, periods and hyphens, and then on its own result
RawAlphabet == {"1", " ", "-", ".", "F", "(", ":", ")"}
RECURSIVE Concat(_)
Concat(chars) == IF chars = <<>> THEN "" ELSE chars[1] \o Concat(Tail(chars))
RawExamples == {None, "1 - 2 - Foo", "2 - Foo (2:3).", "Foo. - ."}
InitNormalize ==
    /\ \/ \E n \in 0..MaxRawLen : \E f \in [1..n -> RawAlphabet] :
             call = Called("normalize_party", <<Concat(f)>>)
       \/ \E x \in RawExamples : call = Called("normalize_party", <<x>>)
    /\ NoWarRun /\ NoDashRun /\ NoIngest /\ NoService
NormalizeReturns ==
    /\ Returns("normalize_party")
    /\ call' = Returned(normalize_party(call.args[1]))
    /\ OnlyCall
\* normalize_party(normalize_party(x)) for a non-null normalize_party(x)
NormalizeAgain ==
    /\ call.fn = "normalize_party"
    /\ call.pc = "returned"
    /\ call.result # None
    /\ call' = [fn |-> call.fn, args |-> call.args, pc |-> "renormalized",
                result |-> call.result, again |-> normalize_party(call.result)]
    /\ OnlyCall
NextNormalize == NormalizeReturns \/ NormalizeAgain
SpecNormalize == InitNormalize /\ [][NextNormalize]_vars

\* C5: effective_land_impact returns 0 for a Raze in war context, and otherwise
\* the transferred acres when positive, else the target's lost acres.
LandImpactFollowsRule ==
    (call.fn = "effective_land_impact" /\ call.pc = "returned") =>
        call.result = IF call.args[4] /\ call.args[3] = "Raze" THEN 0
                      ELSE IF call.args[1] > 0 THEN call.args[1]
                      ELSE call.args[2]
\* C5 witness: a Raze outside war with no transfer and 131 acres lost gives 131
RazeOutsideWarCountsLoss ==
    /\ call.fn = "effective_land_impact"
    /\ call.pc = "returned"
    /\ call.args = <<0, 131, "Raze", FALSE>>
    /\ call.result = 131

\* the phrases of a closing text, lowered
FailedPhrases == {"failed war", "unable to achieve victory", "withdrawn from war"}
VictoryPhrases == {"won the war", "achieved victory"}
PeacePhrases == {"mutual peace", "ended in peace"}
HasPhrase(text, phrases) == \E phrase \in phrases : Contains(Lower(Or(text, "")), phrase)
ResultByPriority(text) ==
    IF HasPhrase(text, FailedPhrases) THEN "failed"
    ELSE IF HasPhrase(text, VictoryPhrases) THEN "victory"
    ELSE IF HasPhrase(text, PeacePhrases) THEN "peace"
    ELSE "ended"

\* C23: classify_war_result is failed for a text with a failed-war phrase, else
\* victory for one with a victory phrase, else peace for one with a peace phrase,
\* else ended; of the rows build_war_rows returns, a closed one has the result
\* of its closing text, one of failed, victory, peace and ended, and an active one
\* has the result active.
WarResultByPriority ==
    /\ (call.fn = "classify_war_result" /\ call.pc = "returned") =>
          call.result = ResultByPriority(call.args[1])
    /\ wpc = "done" =>
          \A w \in WarRows :
              /\ w.status \in {"active", "closed"}
              /\ w.status = "active" => w.result = "active"
              /\ w.status = "closed" =>
                    /\ w.result \in {"failed", "victory", "peace", "ended"}
                    /\ w.result = ResultByPriority(w.end_summary)

\* C23 witness: a text with a victory phrase, a failed-war phrase and a peace
\* phrase, in that order, is failed
FailedBeatsVictoryAndPeace ==
    /\ call.fn = "classify_war_result"
    /\ call.pc = "returned"
    /\ call.args[1] = "We have won the war with Foo (2:3)! We were unable to achieve victory."
                          \o " It ended in peace."
    /\ call.result = "failed"

\* the rungs of the attack-type ladder, highest priority first
AttackLadder ==
    <<[type |-> "Ambush", words |-> {"ambushed armies from", "recaptured"}],
      [type |-> "Massacre", words |-> {"massacre"}],
      [type |-> "Learn", words |-> {"learned", "learn attack"}],
      [type |-> "Plunder", words |-> {"plundered", "pillaged"}],
      [type |-> "Raze", words |-> {"razed"}],
      [type |-> "Conquest", words |-> {"conquest", "conquered"}],
      [type |-> "Traditional March", words |-> {"captured", "invaded"}]>>
RungsIn(text) ==
    {r \in 1..Len(AttackLadder) : HasPhrase(text, AttackLadder[r].words)}

\* C24: classify_attack_type is the type of the first rung of the ladder Ambush,
\* Massacre, Learn, Plunder, Raze, Conquest, Traditional March of which a word
\* occurs in the summary, whatever the case, and Other when none does.
AttackTypeByLadder ==
    (call.fn = "classify_attack_type" /\ call.pc = "returned") =>
        call.result = IF RungsIn(call.args[1]) = {} THEN "Other"
                      ELSE AttackLadder[MinOf(RungsIn(call.args[1]))].type

\* C24 witness: a summary with razed, and with recaptured, which holds captured,
\* is an Ambush
RecapturedIsAmbush ==
    /\ call.fn = "classify_attack_type"
    /\ call.pc = "returned"
    /\ call.args[1] = "Our army razed and recaptured 2 - Foo (2:3)."
    /\ RungsIn(call.args[1]) = {1, 5, 7}
    /\ call.result = "Ambush"

\* the attack at hand in the pressure loop: its opponent, and whether it is a
\* success between the home kingdom and an opponent within a war with it
Opponent(rec) ==
    IF rec.actor_kingdom = home_kingdom /\ Truthy(rec.target_kingdom)
       /\ rec.target_kingdom # home_kingdom
    THEN rec.target_kingdom
    ELSE IF rec.target_kingdom = home_kingdom /\ Truthy(rec.actor_kingdom)
            /\ rec.actor_kingdom # home_kingdom
    THEN rec.actor_kingdom
    ELSE None
InWarWith(rec, kingdom) ==
    \E k \in 1..Len(war_rows) :
        /\ war_rows[k].opponent_kingdom = kingdom
        /\ day_in_range(rec.day_key, war_rows[k].start_key, war_rows[k].end_key)
WartimeSuccess(rec) ==
    /\ rec.outcome = "success"
    /\ Opponent(rec) # None
    /\ InWarWith(rec, Opponent(rec))
RECURSIVE SumField(_, _)
SumField(stats, field) ==
    IF stats = <<>> THEN 0 ELSE stats[1][field] + SumField(Tail(stats), field)
\* what build_war_rows adds to the wars for the attack records[n]
WarAcresOf(records, n, field) ==
    SumField(build_war_rows(war_events, SubSeq(records, 1, n), home_kingdom), field)
    - SumField(build_war_rows(war_events, SubSeq(records, 1, n - 1), home_kingdom), field)
PressureAcres(pressure, kingdom, field) ==
    IF PositionOf(pressure, "kingdom", kingdom) = 0 THEN 0
    ELSE pressure[PositionOf(pressure, "kingdom", kingdom)][field]
LandAcres(land, day_key, field) ==
    IF day_key \in DOMAIN land THEN land[day_key][field] ELSE 0
\* the three additions for the attack at hand, for a pair of fields
LandImpacts(war_field, land_field) ==
    [war |-> WarAcresOf(attack_records, rec_i, war_field),
     pressure |-> PressureAcres(opponent_pressure', Opponent(Rec), war_field)
                  - PressureAcres(opponent_pressure, Opponent(Rec), war_field),
     land |-> LandAcres(home_land_by_day', Rec.day_key, land_field)
              - LandAcres(home_land_by_day, Rec.day_key, land_field)]
Agree(impacts, raze) ==
    /\ impacts.war = impacts.pressure
    /\ impacts.pressure = impacts.land
    /\ raze => impacts.war = 0

\* C25: for every successful attack between the home kingdom and an opponent
\* within a war with that opponent, the acres build_war_rows adds to the war,
\* the acres added to the opponent's pressure row and the acres added to the
\* land swing of the day are equal, and all are 0 for a Raze.
LandImpactAgrees ==
    [][(PressureStep /\ WartimeSuccess(Rec)) =>
          /\ Agree(LandImpacts("acres_for", "gained"), Rec.attack_type = "Raze")
          /\ Agree(LandImpacts("acres_against", "lost"), Rec.attack_type = "Raze")]_vars

WartimeRaze(rec) == rec.attack_type = "Raze" /\ WartimeSuccess(rec)
\* the acres lost by the party name over the successes among records[1..n],
\* with the wartime Razes or without them
RECURSIVE LossesOf(_, _, _, _)
LossesOf(name, records, n, with_razes) ==
    IF n = 0 THEN 0
    ELSE LossesOf(name, records, n - 1, with_razes)
         + IF /\ records[n].outcome = "success"
              /\ records[n].target_name = name
              /\ (with_razes \/ ~WartimeRaze(records[n]))
           THEN records[n].target_loss_acres
           ELSE 0

\* C26: the losses of a party are never negative; until the correction pass they
\* are the acres lost over all successful attacks on it, and after the pass the
\* acres lost over the successful attacks on it that are not wartime Razes.
LossesExcludeWartimeRazes ==
    \A p \in 1..Len(provinces) :
        /\ provinces[p].losses >= 0
        /\ dpc = "correct" =>
               provinces[p].losses =
                   LossesOf(provinces[p].name, attack_records, Len(attack_records), TRUE)
        /\ dpc \in {"pressure", "done"} =>
               provinces[p].losses =
                   LossesOf(provinces[p].name, attack_records, Len(attack_records), FALSE)

\* C26 witness: Foo razes 9 acres of Home within the war and captures 12, and
\* the losses of Home come to 12
RazedAcresTakenBack ==
    /\ dpc = "done"
    /\ \E i, j \in 1..Len(attack_records) :
          /\ WartimeRaze(attack_records[i])
          /\ attack_records[i].target_name = "Home"
          /\ attack_records[i].target_loss_acres = 9
          /\ attack_records[j].target_name = "Home"
          /\ attack_records[j].target_loss_acres = 12
    /\ \E p \in 1..Len(provinces) :
          provinces[p].name = "Home" /\ provinces[p].losses = 12

\* the wars whose hit counters the loop over attack_records raises for an attack
CountedIn(attack) ==
    {k \in 1..Len(wars) :
        /\ Truthy(home_kingdom)
        /\ Truthy(wars[k].opponent_kingdom)
        /\ LET counted == CountAttack(wars[k], attack, home_kingdom)
           IN  counted.hits_for + counted.hits_against
                   > wars[k].hits_for + wars[k].hits_against}

\* C29: the attribution of attacks raises the hit counters of at most one war
\* for each attack record, so the hits of all wars together are at most the
\* number of attack records.
NoAttackCountedTwice ==
    [][AttributeStep =>
          /\ \A i \in 1..Len(attack_records) :
                Cardinality(CountedIn(attack_records[i])) <= 1
          /\ SumField(wars', "hits_for") + SumField(wars', "hits_against")
                 <= Len(attack_records)]_vars

\* C30: a hit of cache_get under the token that is current, with no cycle that
\* has stored its rows and not yet set the token, returns the rows the table
\* holds: no value read before the cycle of the token is cached under it.
HitIsNotOlderThanToken ==
    [][(/\ GetReturnsStep
        /\ handler'.result = "hit"
        /\ handler.token = cache_token(INGEST_STATE)
        /\ ~ThreadAt(INGEST_THREAD, "returned"))
       => Content(heap', handler'.value) = <<fetch_event_rows(kd_news_events)>>]_vars

\* C27: while STOP_EVENT is set no thread of ingest_loop starts a cycle, a
\* thread in its wait between cycles leaves it for the end of the loop with no
\* time passed, and every thread alive comes to its end.
StopEndsLoop ==
    /\ [][STOP_EVENT =>
             \A t \in 1..Len(threads) :
                /\ ~Moves(t, "while", "try")
                /\ (ThreadAt(t, "wait") /\ threads'[t].pc # "wait") =>
                       (threads'[t].pc = "dead" /\ now' = now)]_vars
    /\ \A t \in 1..MaxThreads :
          (STOP_EVENT /\ t \in 1..Len(threads) /\ is_alive(t))
              ~> (t \in 1..Len(threads) /\ ~is_alive(t))

\* C27 witness: STOP_EVENT was set in the first cycle or in the wait after it,
\* and the thread ended in that wait, before any time passed
StoppedInItsSleep ==
    /\ STOP_EVENT
    /\ threads # <<>>
    /\ threads[1].pc = "dead"
    /\ INGEST_STATE.iterations = 1
    /\ now = 0

\* a contention error: an OperationalError with locked or busy in its message
Contention(outcome) ==
    /\ outcome.kind = "OperationalError"
    /\ HasPhrase(outcome.message, {"locked", "busy"})
\* the attempt that ends the call: the first that does not fail on contention,
\* or the last
LastAttempt(script) ==
    IF \A k \in 1..RetryAttempts : Contention(script[k]) THEN RetryAttempts
    ELSE MinOf({k \in 1..RetryAttempts : ~Contention(script[k])})

\* C28: _with_retry runs fn at most 4 times, each time but the first after a
\* contention error and a delay longer than the one before; it ends at the first
\* attempt that does not fail on contention, or at the fourth: a value is
\* committed once and returned, an error is raised; and every connection opened
\* is closed by then.
RetryOnlyOnContention ==
    call.fn = "_with_retry" =>
        LET script == call.args[1]
            last == LastAttempt(script)
        IN  /\ call.runs <= 4
            /\ call.runs <= call.opened
            /\ call.closed <= call.opened /\ call.opened <= call.closed + 1
            /\ \A k \in 2..call.runs : Contention(script[k - 1])
            /\ Len(call.slept) <= 3
            /\ \A i, j \in 1..Len(call.slept) : i < j => call.slept[i] < call.slept[j]
            /\ call.runs >= 2 => Len(call.slept) >= call.runs - 1
            /\ call.pc \in {"returned", "raised"} =>
                  /\ call.runs = last
                  /\ call.opened = last /\ call.closed = last
                  /\ Len(call.slept) = last - 1
                  /\ call.pc = "returned" <=> script[last].kind = "value"
                  /\ call.result = script[last].message
                  /\ call.commits = IF call.pc = "returned" THEN 1 ELSE 0

\* C28 witness: two contention errors, one of them in upper case, then a value:
\* three runs, delays of 150 and 300 ms, three connections closed
ThirdAttemptReturns ==
    /\ RetryAt("returned")
    /\ call.args[1][1] = OperationalError("fn", "Database is BUSY")
    /\ call.args[1][2] = OperationalError("commit", "database table is locked: kd_news_events")
    /\ call.runs = 3
    /\ call.slept = <<150, 300>>
    /\ call.closed = 3
    /\ call.result = "3 rows"

\* C7: classify_operation_kind is support for a self-targeted operation, else
\* support for a support name, else intel for a name with an intel keyword,
\* else hostile.
OperationKindTierOrder ==
    (call.fn = "classify_operation_kind" /\ call.pc = "returned") =>
        LET op_key == operation_key(call.args[1])
            actor_key == operation_key(call.args[2])
            target_key == operation_key(call.args[3])
            self_target == actor_key # "" /\ target_key # "" /\ actor_key = target_key
            support_name == op_key \in OP_SUPPORT_NAMES
            intel_name == \E token \in OP_INTEL_KEYWORDS : Contains(op_key, token)
        IN  /\ self_target => call.result = "support"
            /\ (~self_target /\ support_name) => call.result = "support"
            /\ (~self_target /\ ~support_name /\ intel_name) => call.result = "intel"
            /\ (~self_target /\ ~support_name /\ ~intel_name) => call.result = "hostile"
\* C7 witness: "Revelation", a support name that holds an intel keyword, cast on
\* another party, is support
RevelationIsSupport ==
    /\ call.fn = "classify_operation_kind"
    /\ call.pc = "returned"
    /\ call.args = <<"Revelation", "A", "B">>
    /\ call.result = "support"

\* C8: normalize_party applied to its own non-null result returns that result.
NormalizeIdempotent ==
    (call.fn = "normalize_party" /\ call.pc = "renormalized") => call.again = call.result

====
